---- MODULE Spec2Model ----
(***************************************************************************)
(* Model of the pre/post-processing and model-conversion logic of the      *)
(* OpenVINO notebooks 210 (SlowFast video recognition), 234 (EnCodec audio *)
(* compression) and the FreeVC voice-conversion notebook.                  *)
(*                                                                         *)
(* The notebooks are independent programs, so the module holds one group   *)
(* of variables and one specification per program part:                    *)
(*   SpecSlices  compute_partial_slices / embed_utterance (FreeVC)         *)
(*   SpecPre     process_inputs and its helpers (SlowFast)                 *)
(*   SpecInfer   run_inference (SlowFast)                                  *)
(*   SpecReadLoop  the frame-collection loop of run_inference, with the    *)
(*               fairness of a loop that keeps executing                   *)
(*   SpecConv    the export / convert / save / read cells of a notebook    *)
(*   SpecRace    two processes running one guarded conversion cell         *)
(*   SpecAudio   preprocess / postprocess of the EnCodec demo              *)
(*   SpecDemo    the launch of a gradio demo and its request handler       *)
(*   SpecDevice  the device dropdown and the compile_model calls           *)
(*   SpecWav     the FreeVC inference loops and the result files           *)
(*   SpecCodec   the rebinding of the EnCodec frame functions              *)
(*   SpecCrop    center_crop on a frame and on a scaled frame              *)
(*   SpecNorm    the value of a pixel through process_inputs               *)
(***************************************************************************)
EXTENDS Integers, Sequences, FiniteSets, TLC

VARIABLES
    \* ---- compute_partial_slices / embed_utterance
    s_pc,          \* "start" | "sliced" | "padded" | "assert_failed" | "index_error"
    n_samples,     \* len(wav) on entry
    frame_step,    \* int(np.round((sampling_rate / rate) / samples_per_frame))
    cov_num,       \* min_coverage = cov_num / CovDen
    wav_slices,    \* sequence of [start, stop]
    mel_slices,    \* sequence of [start, stop]
    wav,           \* the waveform of embed_utterance, a sequence of samples
    \* ---- process_inputs
    p_pc,          \* "start" | "done" | "assert_failed"
    frames,        \* the list of frames, each [h, w, dtype]
    num_frames,    \* argument num_frames
    crop_size,     \* argument crop_size
    p_out,         \* the returned list [slow_pathway, fast_pathway]
    p_scaled,      \* the frames scale_short_side returned, in order
    \* ---- run_inference (frames, num_frames, crop_size and p_out are its
    \*      frames, num_frames, crop_size and inputs)
    i_pc,          \* "reading" | "preprocess" | "invoke" | "postprocess" | "done" | "error"
    video_len,     \* readable frames of the video, Endless for a stream
    video_frame,   \* [h, w, dtype] of the frames of the video
    pos,           \* frames read from video_cap so far
    ret,           \* the flag of the last video_cap.read()
    sampling_rate, \* argument sampling_rate
    top_k,         \* argument top_k
    model,         \* "pytorch" | "ov_compiled"
    invoked,       \* the runner that executed the forward pass, "none" before
    tie_order,     \* how this build's np.argsort orders equal scores
    logits,        \* class index -> the predictions the model returned
    predictions,   \* class index -> predictions after softmax, NaN or [num, den]
    pred_class_names,  \* the returned list of labels
    \* ---- the conversion cells of a notebook, run top to bottom
    notebook,      \* "encodec" | "freevc" | "slowfast"
    c_pc,          \* index of the next cell to run, Len(cells) + 1 when all ran
    c_err,         \* TRUE when the run stopped at a cell that raised
    run,           \* number of the current run of the notebook
    lost,          \* files removed from the disk by the environment so far
    disk,          \* the files that exist
    writes,        \* file -> number of times it was written
    bound,         \* kernel variable -> "unbound" | "converted" | "read"
    \* ---- processes running one guarded conversion cell on the same disk
    r_cell,        \* the cell they run
    r_pc,          \* process -> "check" | "export" | "convert" | "save" | "read" | "done" | "error"
    r_seen,        \* process -> what xml_path.exists() returned: "unset" | "present" | "absent"
    r_pending,     \* process -> the files save_model has still to write
    r_saved,       \* process -> completed save_model calls
    r_model,       \* process -> "unbound" | "converted" | "read"
    \* ---- preprocess / postprocess of the EnCodec demo, one sample of the waveform
    a_pc,          \* "input" | "decoded" | "output"
    a_input,       \* the int16 sample given to preprocess, NoSample for a wave the model decoded
    a_wave,        \* the float32 sample, [m, e] for m * 2^e
    a_output,      \* the sample postprocess returned
    \* ---- the gradio demo cell of a notebook
    d_notebook,    \* "encodec" | "freevc"
    d_pc,          \* "launch" | "except" | "serving" | "request" | "raised"
    d_launches,    \* the launch calls made so far, each [share, outcome]
    d_req,         \* requests submitted to the interface so far
    d_step,        \* index of the next step of the request being handled
    d_calls,       \* step -> times it was invoked for the request being handled
    d_failed,      \* requests whose error was surfaced to the caller
    \* ---- the device dropdown and the compile_model calls of a notebook
    v_notebook,    \* "encodec" | "freevc" | "slowfast"
    v_pc,          \* "widget" | "ready" | "failed" | "done"
    v_available,   \* core.available_devices, as the environment has it now
    v_options,     \* the options of the dropdown
    v_value,       \* device.value
    v_selected,    \* TRUE once the user picked an option
    v_next,        \* index of the next compile_model call
    v_passed,      \* the compile_model calls made, each [name, requested, available, raised]
    \* ---- the FreeVC inference loops and the files they write
    w_pc,          \* "native" | "openvino" | "demo"
    w_i,           \* index into zip(srcs, tgts) of the next iteration
    w_clock,       \* time.localtime(), in ticks
    w_dir,         \* outputs/freevc: a set of [name, loop, pair]
    w_cwd,         \* the working directory: a set of [name, loop, pair]
    w_names,       \* result_wav_names
    w_writes,      \* every write(...) made so far, in order
    w_req,         \* requests the demo has served
    \* ---- the EnCodec model object and the compress / decompress calls
    k_pc,          \* "run" while the EnCodec notebook runs
    k_model,       \* the bindings of model: [encode, decode]
    k_calls,       \* the frame functions used so far, each [op, via, rebound]
    \* ---- center_crop called on one frame
    cc_pc,         \* "start" | "scaled" | "cropped" | "assert_failed"
    cc_size,       \* the size argument
    cc_frame,      \* the frame argument of the first call, [h, w, dtype]
    cc_input,      \* the frame given to center_crop
    cc_out,        \* the window center_crop cut, with its margins
    \* ---- the value of one pixel on its way through process_inputs
    n_pc,          \* "scale" | "crop" | "to_float" | "normalize" | "done"
    n_size,        \* crop_size
    n_frame,       \* the input frame, [h, w, dtype]
    n_pixel,       \* the value every pixel of the frame has
    n_array,       \* the array so far: [dtype, num, den], the pixel being num / den
    n_divs,        \* divisions by 255 applied so far
    n_rescaled     \* TRUE when scale_short_side resized the frame

sliceVars == <<s_pc, n_samples, frame_step, cov_num, wav_slices, mel_slices, wav>>

preVars == <<p_pc, frames, num_frames, crop_size, p_out, p_scaled>>

inferVars == <<i_pc, video_len, video_frame, pos, ret, sampling_rate, top_k, model,
               invoked, tie_order, logits, predictions, pred_class_names>>

fsVars == <<disk, writes>>

cellVars == <<notebook, c_pc, c_err, run, lost, bound>>

raceVars == <<r_cell, r_pc, r_seen, r_pending, r_saved, r_model>>

audioVars == <<a_pc, a_input, a_wave, a_output>>

demoVars == <<d_notebook, d_pc, d_launches, d_req, d_step, d_calls, d_failed>>

deviceVars == <<v_notebook, v_pc, v_available, v_options, v_value, v_selected, v_next, v_passed>>

wavVars == <<w_pc, w_i, w_clock, w_dir, w_cwd, w_names, w_writes, w_req>>

codecVars == <<k_pc, k_model, k_calls>>

cropVars == <<cc_pc, cc_size, cc_frame, cc_input, cc_out>>

normVars == <<n_pc, n_size, n_frame, n_pixel, n_array, n_divs, n_rescaled>>

vars == <<sliceVars, preVars, inferVars, fsVars, cellVars, raceVars, audioVars, demoVars, deviceVars, wavVars, codecVars, cropVars, normVars>>

\* what the actions of one program part leave unchanged
notSlices == <<preVars, inferVars, fsVars, cellVars, raceVars, audioVars, demoVars, deviceVars, wavVars, codecVars, cropVars, normVars>>

notPre == <<sliceVars, inferVars, fsVars, cellVars, raceVars, audioVars, demoVars, deviceVars, wavVars, codecVars, cropVars, normVars>>

notInfer == <<sliceVars, fsVars, cellVars, raceVars, audioVars, demoVars, deviceVars, wavVars, codecVars, cropVars, normVars>>

notConv == <<sliceVars, preVars, inferVars, raceVars, audioVars, demoVars, deviceVars, wavVars, codecVars, cropVars, normVars>>

notRace == <<sliceVars, preVars, inferVars, cellVars, audioVars, demoVars, deviceVars, wavVars, codecVars, cropVars, normVars>>

notAudio == <<sliceVars, preVars, inferVars, fsVars, cellVars, raceVars, demoVars, deviceVars, wavVars, codecVars, cropVars, normVars>>

notDemo == <<sliceVars, preVars, inferVars, fsVars, cellVars, raceVars, audioVars, deviceVars, wavVars, codecVars, cropVars, normVars>>

notDevice == <<sliceVars, preVars, inferVars, fsVars, cellVars, raceVars, audioVars, demoVars, wavVars, codecVars, cropVars, normVars>>

notWav == <<sliceVars, preVars, inferVars, fsVars, cellVars, raceVars, audioVars, demoVars, deviceVars, codecVars, cropVars, normVars>>

notCodec == <<sliceVars, preVars, inferVars, fsVars, cellVars, raceVars, audioVars, demoVars, deviceVars, wavVars, cropVars, normVars>>

notCrop == <<sliceVars, preVars, inferVars, fsVars, cellVars, raceVars, audioVars, demoVars, deviceVars, wavVars, codecVars, normVars>>

notNorm == <<sliceVars, preVars, inferVars, fsVars, cellVars, raceVars, audioVars, demoVars, deviceVars, wavVars, codecVars, cropVars>>

(***************************************************************************)
(* Bounds of the model.                                                    *)
(***************************************************************************)
\* speaker_encoder.hparams: partials_n_frames (160 in the package), scaled down
partials_n_frames == 4
\* int(sampling_rate * mel_window_step / 1000) (160 in the package), scaled down
samples_per_frame == 2
\* longest waveform, in samples
MaxSamples == 22
\* min_coverage ranges over the fractions k / CovDen
CovDen == 4
\* largest height and width of an input frame
MaxSide == 4
\* longest list of frames given to process_inputs
MaxT == 6
\* largest num_frames argument
MaxNumFrames == 9
\* largest crop_size argument
MaxCrop == 3
\* longest video given to run_inference, in frames
MaxVideo == 3
\* largest num_frames and sampling_rate arguments of run_inference
MaxRate == 2
\* classes of the model (400 for Kinetics-400), scaled down
NumClasses == 6
\* runs of a notebook
MaxRuns == 3
\* files the environment removes between runs
MaxLost == 1
\* processes that run the same conversion cell at the same time
NumProcs == 2
\* decoded samples reach this many int16 steps beyond the int16 range
MaxOver == 4
\* requests submitted to a demo
MaxRequests == 3
\* the clock of the FreeVC run stops after this many ticks
MaxClock == 5
\* ticks of the clock in one minute (60 when a tick is a second)
TicksPerMinute == 2
\* frame-function uses recorded in a run of the EnCodec notebook
MaxCalls == 5

(***************************************************************************)
(* Constants of the SlowFast notebook.                                     *)
(***************************************************************************)
NUM_FRAMES == 32
SAMPLING_RATE == 2
CROP_SIZE == 256
\* pack_pathway_output(frames, alpha: int = 4)
alpha == 4
\* channels of a video frame: len(MEAN) and dummy_input.shape[1]
Channels == 3
\* the local topk = 5 of run_inference
topk == 5
\* np.exp of a float32 is inf from this integer on (e^88.72 is the largest float32)
ExpOverflow == 89
\* input / 2**15 and output * 2**15
ScaleExp == 15
\* bits of np.int16
Int16Bits == 16
\* MEAN = [0.45, 0.45, 0.45] and STD = [0.225, 0.225, 0.225]: 9 / 20 and 9 / 40
MEAN == [num |-> 9, den |-> 20]
STD == [num |-> 9, den |-> 40]
\* the divisor of the pixel values
PixelScale == 255
\* len(srcs) = len(tgts) of the FreeVC notebook
NumPairs == 2
\* video_len of a source that never runs out of frames
Endless == 0 - 1
\* the frame of a failed video_cap.read()
NoneFrame == [h |-> 0, w |-> 0, dtype |-> "None"]

(***************************************************************************)
(* Small arithmetic helpers.                                               *)
(***************************************************************************)
Max(a, b) == IF a >= b THEN a ELSE b

Min(a, b) == IF a <= b THEN a ELSE b

\* np.ceil(a / b) for a >= 0, b > 0
CeilDiv(a, b) == (a + b - 1) \div b

RECURSIVE Pow2(_)
Pow2(k) == IF k <= 0 THEN 1 ELSE 2 * Pow2(k - 1)

(***************************************************************************)
(* compute_partial_slices(n_samples, rate, min_coverage).                  *)
(* rate enters only through frame_step, so frame_step is the input; the    *)
(* coverage test compares two ratios of small integers, where the float    *)
(* comparison of the code agrees with the exact one.                       *)
(***************************************************************************)
\* the two assertions on frame_step and the one on min_coverage
SliceAssertsPass(fs, cn) ==
    /\ 0 < cn /\ cn <= CovDen
    /\ 0 < fs
    /\ fs <= partials_n_frames

\* n_frames = int(np.ceil((n_samples + 1) / samples_per_frame))
NFrames(n) == CeilDiv(n + 1, samples_per_frame)

\* mutant of Steps: the range goes one frame_step further
Steps_ExtraStep(n, fs) == Max(1, NFrames(n) - partials_n_frames + 2 * fs + 1)

\* mutant of Steps: the range stops one frame_step early
Steps_NoFrameStep(n, fs) == Max(1, NFrames(n) - partials_n_frames + 1)

\* steps = max(1, n_frames - partials_n_frames + frame_step + 1)
Steps(n, fs) == Max(1, NFrames(n) - partials_n_frames + fs + 1)

\* number of iterations of range(0, steps, frame_step)
RangeLen(steps, fs) == CeilDiv(steps, fs)

\* mel_range = np.array([i, i + partials_n_frames]) for the k-th iteration
MelCandidates(n, fs) ==
    [k \in 1..RangeLen(Steps(n, fs), fs) |->
        [start |-> (k - 1) * fs, stop |-> (k - 1) * fs + partials_n_frames]]

\* wav_range = mel_range * samples_per_frame
WavRange(m) ==
    [start |-> m.start * samples_per_frame, stop |-> m.stop * samples_per_frame]

WavCandidates(n, fs) ==
    [k \in 1..RangeLen(Steps(n, fs), fs) |-> WavRange(MelCandidates(n, fs)[k])]

\* mutant of CoverageBelow: a coverage equal to min_coverage counts as too low
CoverageBelow_Le(n, w, cn) == (n - w.start) * CovDen <= cn * (w.stop - w.start)

\* coverage < min_coverage, for coverage = (n - start) / (stop - start)
CoverageBelow(n, w, cn) == (n - w.start) * CovDen < cn * (w.stop - w.start)

\* mutant of DropLast: the only slice may be dropped too
DropLast_NoLenGuard(n, ws, cn) == CoverageBelow(n, ws[Len(ws)], cn)

\* if coverage < min_coverage and len(mel_slices) > 1
DropLast(n, ws, cn) == CoverageBelow(n, ws[Len(ws)], cn) /\ Len(ws) > 1

ButLast(s) == SubSeq(s, 1, Len(s) - 1)

\* mutant of compute_partial_slices: only mel_slices loses its last element
compute_partial_slices_MelOnly(n, fs, cn) ==
    LET ws == WavCandidates(n, fs)
        ms == MelCandidates(n, fs)
    IN  IF DropLast(n, ws, cn)
        THEN [wav |-> ws, mel |-> ButLast(ms)]
        ELSE [wav |-> ws, mel |-> ms]

compute_partial_slices(n, fs, cn) ==
    LET ws == WavCandidates(n, fs)
        ms == MelCandidates(n, fs)
    IN  IF DropLast(n, ws, cn)
        THEN [wav |-> ButLast(ws), mel |-> ButLast(ms)]
        ELSE [wav |-> ws, mel |-> ms]

(***************************************************************************)
(* embed_utterance: slice, then pad the waveform up to wav_slices[-1].stop *)
(* A sample is modelled by its 1-based position; padding appends zeros.    *)
(***************************************************************************)
Waveform(n) == [i \in 1..n |-> i]

Zeros(k) == [i \in 1..k |-> 0]

\* mutant of PadTo: the waveform is resized to the stop of the last slice
PadTo_Resize(w, len) == [i \in 1..len |-> IF i <= Len(w) THEN w[i] ELSE 0]

\* mutant of PadTo: the waveform is left as it is
PadTo_NoPad(w, len) == w

\* np.pad(wav, (0, max_wave_length - len(wav)), "constant")
PadTo(w, len) == IF len >= Len(w) THEN w \o Zeros(len - Len(w)) ELSE w

InitSlices ==
    /\ s_pc = "start"
    /\ n_samples \in 0..MaxSamples
    /\ frame_step \in 0..(partials_n_frames + 1)
    /\ cov_num \in 0..(CovDen + 1)
    /\ wav_slices = <<>>
    /\ mel_slices = <<>>
    /\ wav = Waveform(n_samples)
    \* the other program parts are not running
    /\ p_pc = "idle"
    /\ frames = <<>>
    /\ num_frames = 1
    /\ crop_size = 1
    /\ p_out = <<>>
    /\ p_scaled = <<>>
    /\ i_pc = "idle"
    /\ video_len = 0
    /\ video_frame = NoneFrame
    /\ pos = 0
    /\ ret = TRUE
    /\ sampling_rate = 1
    /\ top_k = 1
    /\ model = "pytorch"
    /\ invoked = "none"
    /\ tie_order = "index_ascending"
    /\ logits = <<>>
    /\ predictions = <<>>
    /\ pred_class_names = <<>>
    /\ notebook = "none"
    /\ c_pc = 0
    /\ c_err = FALSE
    /\ run = 0
    /\ lost = 0
    /\ bound = <<>>
    /\ disk = {}
    /\ writes = <<>>
    /\ r_cell = "none"
    /\ r_pc = <<>>
    /\ r_seen = <<>>
    /\ r_pending = <<>>
    /\ r_saved = <<>>
    /\ r_model = <<>>
    /\ a_pc = "idle"
    /\ a_input = 0
    /\ a_wave = <<>>
    /\ a_output = 0
    /\ d_notebook = "none"
    /\ d_pc = "idle"
    /\ d_launches = <<>>
    /\ d_req = 0
    /\ d_step = 0
    /\ d_calls = <<>>
    /\ d_failed = 0
    /\ v_notebook = "none"
    /\ v_pc = "idle"
    /\ v_available = {}
    /\ v_options = {}
    /\ v_value = "AUTO"
    /\ v_selected = FALSE
    /\ v_next = 0
    /\ v_passed = <<>>
    /\ w_pc = "idle"
    /\ w_i = 0
    /\ w_clock = 0
    /\ w_dir = {}
    /\ w_cwd = {}
    /\ w_names = <<>>
    /\ w_writes = <<>>
    /\ w_req = 0
    /\ k_pc = "idle"
    /\ k_model = <<>>
    /\ k_calls = <<>>
    /\ cc_pc = "idle"
    /\ cc_size = 1
    /\ cc_frame = NoneFrame
    /\ cc_input = NoneFrame
    /\ cc_out = <<>>
    /\ n_pc = "idle"
    /\ n_size = 1
    /\ n_frame = NoneFrame
    /\ n_pixel = 0
    /\ n_array = <<>>
    /\ n_divs = 0
    /\ n_rescaled = FALSE

\* an assertion of compute_partial_slices fails
SliceAssertFail ==
    /\ s_pc = "start"
    /\ ~SliceAssertsPass(frame_step, cov_num)
    /\ s_pc' = "assert_failed"
    /\ UNCHANGED <<n_samples, frame_step, cov_num, wav_slices, mel_slices, wav>>
    /\ UNCHANGED notSlices

\* wav_slices, mel_slices = compute_partial_slices(len(wav), rate, min_coverage)
ComputeSlices ==
    /\ s_pc = "start"
    /\ SliceAssertsPass(frame_step, cov_num)
    /\ LET r == compute_partial_slices(Len(wav), frame_step, cov_num)
       IN  /\ wav_slices' = r.wav
           /\ mel_slices' = r.mel
    /\ s_pc' = "sliced"
    /\ UNCHANGED <<n_samples, frame_step, cov_num, wav>>
    /\ UNCHANGED notSlices

\* max_wave_length = wav_slices[-1].stop; pad when max_wave_length >= len(wav)
PadWave ==
    /\ s_pc = "sliced"
    /\ IF Len(wav_slices) = 0
       THEN \* wav_slices[-1] raises IndexError
            /\ s_pc' = "index_error"
            /\ wav' = wav
       ELSE /\ wav' = PadTo(wav, wav_slices[Len(wav_slices)].stop)
            /\ s_pc' = "padded"
    /\ UNCHANGED <<n_samples, frame_step, cov_num, wav_slices, mel_slices>>
    /\ UNCHANGED notSlices

NextSlices == SliceAssertFail \/ ComputeSlices \/ PadWave

SpecSlices == InitSlices /\ [][NextSlices]_vars

(***************************************************************************)
(* IEEE-754 binary64 arithmetic of the expressions                         *)
(*     math.floor((float(a) / b) * k)   and   (k * (a / b)).astype(int)    *)
(* for small positive integers.  float(a) / b is a / b rounded to 53       *)
(* significant bits (round half to even); the product with k is rounded    *)
(* once more.  The rounded quotient is a/b + r / (b * 2^s), s = 52 - e,    *)
(* e = floor(log2(a / b)); r is found from a * 2^s modulo b, so every      *)
(* intermediate value stays small.  The floor differs from the exact       *)
(* floor(a * k / b) only when b divides a * k, the quotient was rounded    *)
(* down, and the product lies more than half a unit in the last place      *)
(* below the integer a * k / b.                                            *)
(***************************************************************************)
RECURSIVE ExpUp(_, _, _)
ExpUp(a, b, e) == IF b * Pow2(e + 1) <= a THEN ExpUp(a, b, e + 1) ELSE e

RECURSIVE ExpDown(_, _, _)
ExpDown(a, b, j) == IF a * Pow2(j) >= b THEN 0 - j ELSE ExpDown(a, b, j + 1)

\* floor(log2(a / b)), the binary exponent of the quotient
FlExp(a, b) == IF a >= b THEN ExpUp(a, b, 0) ELSE ExpDown(a, b, 1)

RECURSIVE CeilLog2From(_, _)
CeilLog2From(k, c) == IF Pow2(c) >= k THEN c ELSE CeilLog2From(k, c + 1)

CeilLog2(k) == CeilLog2From(k, 0)

RECURSIVE Pow2Mod(_, _)
Pow2Mod(s, m) == IF s = 0 THEN 1 % m ELSE (2 * Pow2Mod(s - 1, m)) % m

\* r with float(a) / b = a / b + r / (b * 2^(52 - FlExp(a, b)))
DivRoundErr(a, b) ==
    LET s == 52 - FlExp(a, b)
        A == (a * Pow2Mod(s, 2 * b)) % (2 * b)
        rem == A % b
        odd == A >= b
    IN  IF rem = 0 THEN 0
        ELSE IF 2 * rem < b THEN 0 - rem
        ELSE IF 2 * rem > b THEN b - rem
        ELSE IF odd THEN b - rem ELSE 0 - rem

\* math.floor((float(a) / b) * k) for a, b, k >= 1
FlFloorMulDiv(a, b, k) ==
    LET K0 == (a * k) \div b
        r == DivRoundErr(a, b)
        t == FlExp(a, b) + 1 - (CeilLog2(K0) - 1)
        lhs == (0 - r) * k * Pow2(t)
        rhs == b * Pow2(0 - t)
    IN  IF (a * k) % b # 0 \/ r >= 0 THEN K0
        ELSE IF lhs > rhs THEN K0 - 1 ELSE K0

(***************************************************************************)
(* numpy helpers.                                                          *)
(***************************************************************************)
\* the number of elements of the slice [lo:hi] of an axis of length n
NormIndex(i, n) == IF i < 0 THEN Max(n + i, 0) ELSE Min(i, n)

SliceLen(n, lo, hi) == Max(0, NormIndex(hi, n) - NormIndex(lo, n))

\* math.ceil(x / 2)
CeilHalf(x) == 0 - ((0 - x) \div 2)

\* np.linspace(0, stop, num).astype(np.int_), as a sequence of length num:
\* arange(0, num) * (stop / (num - 1)), the last element set to stop
Linspace(stop, num) ==
    [j \in 1..num |->
        IF num = 1 \/ j = 1 \/ stop = 0 THEN 0
        ELSE IF j = num THEN stop
        ELSE FlFloorMulDiv(stop, num - 1, j - 1)]

\* np.take(a, indices, axis) along the frame axis
Take(idx, indices) == [j \in 1..Len(indices) |-> idx[indices[j] + 1]]

(***************************************************************************)
(* The helpers of process_inputs.  A frame is [h, w, dtype]; a stack of    *)
(* frames is [idx, h, w, c, dtype], idx being the positions in the input   *)
(* list of the frames it holds, in order.                                  *)
(***************************************************************************)
\* mutant of scale_short_side: the long side is scaled to size
scale_short_side_Long(size, f) ==
    IF (f.w >= f.h /\ f.w = size) \/ (f.h >= f.w /\ f.h = size) THEN f
    ELSE IF f.w > f.h
         THEN [h |-> Max(1, FlFloorMulDiv(f.h, f.w, size)), w |-> size, dtype |-> "float32"]
         ELSE [h |-> size, w |-> Max(1, FlFloorMulDiv(f.w, f.h, size)), dtype |-> "float32"]

\* mutant of scale_short_side: the long side is the exact integer quotient
scale_short_side_Exact(size, f) ==
    IF (f.w <= f.h /\ f.w = size) \/ (f.h <= f.w /\ f.h = size) THEN f
    ELSE IF f.w < f.h
         THEN [h |-> (f.h * size) \div f.w, w |-> size, dtype |-> "float32"]
         ELSE [h |-> size, w |-> (f.w * size) \div f.h, dtype |-> "float32"]

scale_short_side(size, f) ==
    IF (f.w <= f.h /\ f.w = size) \/ (f.h <= f.w /\ f.h = size) THEN f
    ELSE IF f.w < f.h
         THEN [h |-> FlFloorMulDiv(f.h, f.w, size), w |-> size, dtype |-> "float32"]
         ELSE [h |-> size, w |-> FlFloorMulDiv(f.w, f.h, size), dtype |-> "float32"]

\* the cropped window frame[y_offset:y_offset + size, x_offset:x_offset + size, :]
center_crop(size, f) ==
    LET y_offset == CeilHalf(f.h - size)
        x_offset == CeilHalf(f.w - size)
    IN  [h |-> SliceLen(f.h, y_offset, y_offset + size),
         w |-> SliceLen(f.w, x_offset, x_offset + size),
         dtype |-> f.dtype]

\* the two assertions of center_crop
CropAssertsPass(size, c) == c.h = size /\ c.w = size

\* mutant of SampleIndices: linspace without its endpoint
SampleIndices_NoEndpoint(t, num) == [j \in 1..num |-> ((j - 1) * (t - 1)) \div num]

\* mutant of SampleIndices: one index too few
SampleIndices_Short(t, num) == Linspace(t - 1, num - 1)

\* indices = np.linspace(0, inputs.shape[1] - 1, num_frames).astype(np.int_)
SampleIndices(t, num) == Linspace(t - 1, num)

\* mutant of pack_pathway_output: the slow pathway takes every alpha-th frame
pack_pathway_output_Stride(a) ==
    <<[a EXCEPT !.idx = Take(a.idx, [j \in 1..(Len(a.idx) \div alpha) |-> (j - 1) * alpha])], a>>

\* mutant of pack_pathway_output: the pathways are returned in the other order
pack_pathway_output_Swapped(a) ==
    <<a, [a EXCEPT !.idx = Take(a.idx, Linspace(Len(a.idx) - 1, Len(a.idx) \div alpha))]>>

\* frame_list = [slow_pathway, fast_pathway]
pack_pathway_output(a) ==
    <<[a EXCEPT !.idx = Take(a.idx, Linspace(Len(a.idx) - 1, Len(a.idx) \div alpha))], a>>

\* scale and crop every frame; FALSE when an assertion of center_crop fails
Cropped(fs, size) == [k \in 1..Len(fs) |-> center_crop(size, scale_short_side(size, fs[k]))]

\* inputs = [scale_short_side(size=crop_size, frame=frame) for frame in frames]
Scaled(fs, size) == [k \in 1..Len(fs) |-> scale_short_side(size, fs[k])]

process_inputs_ok(fs, size) ==
    \A k \in 1..Len(fs) : CropAssertsPass(size, Cropped(fs, size)[k])

\* np.array(inputs).astype(np.float32) / 255, normalize, transpose, take, pack
process_inputs(fs, num, size) ==
    LET stacked == [idx |-> [k \in 1..Len(fs) |-> k],
                    h |-> Cropped(fs, size)[1].h, w |-> Cropped(fs, size)[1].w,
                    c |-> Channels, dtype |-> "float32"]
        sampled == [stacked EXCEPT !.idx = Take(stacked.idx, SampleIndices(Len(fs), num))]
    IN  pack_pathway_output(sampled)

\* the shape of np.expand_dims(inp, 0)
Shape(a) == <<1, a.c, Len(a.idx), a.h, a.w>>

FrameSet == [h : 1..MaxSide, w : 1..MaxSide, dtype : {"uint8", "float32"}]

\* frame sizes of the notebook's scale: a landscape and a portrait video
NotebookFrames ==
    {[h |-> 360, w |-> 640, dtype |-> "uint8"], [h |-> 640, w |-> 360, dtype |-> "uint8"]}

\* clip lengths and num_frames for which a product k * ((T - 1) / (num_frames - 1))
\* is rounded to just below the integer it stands for
RoundedClips == {[t |-> 31, num |-> 23], [t |-> 31, num |-> 27]}

\* frames and a size for which (float(long) / short) * size is rounded to just
\* below the integer long * size / short
RoundedSize == 11

RoundedFrames ==
    {[h |-> 30, w |-> 22, dtype |-> "uint8"], [h |-> 22, w |-> 30, dtype |-> "uint8"]}

InitPre ==
    /\ p_pc = "start"
    /\ p_out = <<>>
    /\ p_scaled = <<>>
    /\ \/ /\ num_frames \in 1..MaxNumFrames
          /\ crop_size \in 1..MaxCrop
          /\ \E t \in 1..MaxT, f1 \in FrameSet, f2 \in FrameSet :
                /\ f1.dtype = f2.dtype
                /\ frames = [k \in 1..t |-> IF k % 2 = 1 THEN f1 ELSE f2]
       \/ /\ num_frames = NUM_FRAMES
          /\ crop_size = CROP_SIZE
          /\ \E f \in NotebookFrames :
                frames = [k \in 1..(NUM_FRAMES * SAMPLING_RATE) |-> f]
       \/ /\ crop_size = CROP_SIZE
          /\ \E r \in RoundedClips, f \in NotebookFrames :
                /\ num_frames = r.num
                /\ frames = [k \in 1..r.t |-> f]
       \/ /\ crop_size = RoundedSize
          /\ num_frames \in 1..MaxNumFrames
          /\ \E t \in 1..MaxT, f \in RoundedFrames :
                frames = [k \in 1..t |-> f]
    \* the other program parts are not running
    /\ s_pc = "idle"
    /\ n_samples = 0
    /\ frame_step = 1
    /\ cov_num = 1
    /\ wav_slices = <<>>
    /\ mel_slices = <<>>
    /\ wav = <<>>
    /\ i_pc = "idle"
    /\ video_len = 0
    /\ video_frame = NoneFrame
    /\ pos = 0
    /\ ret = TRUE
    /\ sampling_rate = 1
    /\ top_k = 1
    /\ model = "pytorch"
    /\ invoked = "none"
    /\ tie_order = "index_ascending"
    /\ logits = <<>>
    /\ predictions = <<>>
    /\ pred_class_names = <<>>
    /\ notebook = "none"
    /\ c_pc = 0
    /\ c_err = FALSE
    /\ run = 0
    /\ lost = 0
    /\ bound = <<>>
    /\ disk = {}
    /\ writes = <<>>
    /\ r_cell = "none"
    /\ r_pc = <<>>
    /\ r_seen = <<>>
    /\ r_pending = <<>>
    /\ r_saved = <<>>
    /\ r_model = <<>>
    /\ a_pc = "idle"
    /\ a_input = 0
    /\ a_wave = <<>>
    /\ a_output = 0
    /\ d_notebook = "none"
    /\ d_pc = "idle"
    /\ d_launches = <<>>
    /\ d_req = 0
    /\ d_step = 0
    /\ d_calls = <<>>
    /\ d_failed = 0
    /\ v_notebook = "none"
    /\ v_pc = "idle"
    /\ v_available = {}
    /\ v_options = {}
    /\ v_value = "AUTO"
    /\ v_selected = FALSE
    /\ v_next = 0
    /\ v_passed = <<>>
    /\ w_pc = "idle"
    /\ w_i = 0
    /\ w_clock = 0
    /\ w_dir = {}
    /\ w_cwd = {}
    /\ w_names = <<>>
    /\ w_writes = <<>>
    /\ w_req = 0
    /\ k_pc = "idle"
    /\ k_model = <<>>
    /\ k_calls = <<>>
    /\ cc_pc = "idle"
    /\ cc_size = 1
    /\ cc_frame = NoneFrame
    /\ cc_input = NoneFrame
    /\ cc_out = <<>>
    /\ n_pc = "idle"
    /\ n_size = 1
    /\ n_frame = NoneFrame
    /\ n_pixel = 0
    /\ n_array = <<>>
    /\ n_divs = 0
    /\ n_rescaled = FALSE

\* inputs = process_inputs(frames, num_frames, crop_size, mean, std)
ProcessInputs ==
    /\ p_pc = "start"
    /\ IF process_inputs_ok(frames, crop_size)
       THEN /\ p_out' = process_inputs(frames, num_frames, crop_size)
            /\ p_pc' = "done"
       ELSE /\ p_out' = p_out
            /\ p_pc' = "assert_failed"
    /\ p_scaled' = Scaled(frames, crop_size)
    /\ UNCHANGED <<frames, num_frames, crop_size>>
    /\ UNCHANGED notPre

NextPre == ProcessInputs

SpecPre == InitPre /\ [][NextPre]_vars

(***************************************************************************)
(* run_inference.                                                          *)
(***************************************************************************)
Classes == 0..(NumClasses - 1)

\* id_to_label_mapping[int(i)]
id_to_label_mapping(i) == [label |-> i]

\* the predictions a model returns for one class: two finite values to rank
\* and one whose exponential overflows
Logits == {0, 1, ExpOverflow}

\* softmax(x) = np.exp(x) / np.exp(x).sum(axis=None) in float arithmetic, with
\* 2^x standing for the finite values of e^x.  np.exp(x) is inf from
\* ExpOverflow on and the sum is then inf: inf / inf is NaN and a finite
\* value / inf is 0.  A finite result is the fraction num / den.
NaN == [nan |-> TRUE, num |-> 0, den |-> 1]

Frac(n, d) == [nan |-> FALSE, num |-> n, den |-> d]

softmax(x) ==
    LET RECURSIVE SumTo(_)
        SumTo(k) == IF k < 0 THEN 0 ELSE Pow2(x[k]) + SumTo(k - 1)
    IN  IF \E c \in DOMAIN x : x[c] >= ExpOverflow
        THEN [c \in DOMAIN x |-> IF x[c] >= ExpOverflow THEN NaN ELSE Frac(0, 1)]
        ELSE [c \in DOMAIN x |-> Frac(Pow2(x[c]), SumTo(NumClasses - 1))]

\* a < b for two finite values
FracLess(a, b) == a.num * b.den < b.num * a.den

\* np.argsort(-1 * predictions, axis=1) orders the classes by non-increasing
\* value and puts NaN after every number.  The order of equal values is not
\* specified, but it is a fixed function of the array for a given build: a
\* stable sort keeps the indices ascending, and the descending order stands
\* for an unstable one.
TieOrders == {"index_ascending", "index_descending"}

\* class d comes before class c in the order of argsort
First(p, d, c, tie) ==
    \/ ~p[d].nan /\ p[c].nan
    \/ ~p[d].nan /\ ~p[c].nan /\ FracLess(p[c], p[d])
    \/ /\ p[d].nan = p[c].nan
       /\ p[d].nan \/ ~FracLess(p[d], p[c])
       /\ IF tie = "index_ascending" THEN d < c ELSE d > c

\* the sequence q with class c put at position k + 1
Place(q, c, k) == SubSeq(q, 1, k) \o <<c>> \o SubSeq(q, k + 1, Len(q))

\* class c put into the ordered sequence q, after the classes that come before it
Insert(p, q, c, tie) ==
    Place(q, c, Cardinality({j \in 1..Len(q) : First(p, q[j], c, tie)}))

\* the classes 0..n-1 in the order of argsort
RECURSIVE argsort_desc(_, _, _)
argsort_desc(p, n, tie) ==
    IF n = 0 THEN <<>>
    ELSE Insert(p, argsort_desc(p, n - 1, tie), n - 1, tie)

\* mutant of TopSlice: the slice is taken up to the argument top_k
TopSlice_Arg(q, k) == SubSeq(q, 1, Min(k, Len(q)))

\* [:, :topk] with the local topk = 5, whatever the argument top_k
TopSlice(q, k) == SubSeq(q, 1, Min(topk, Len(q)))

\* frames of the videos given to run_inference
VideoFrames == {f \in FrameSet : f.dtype = "uint8" /\ f.h = MaxSide - 1 /\ f.w = MaxSide}

\* top_k arguments: below, equal to and above the local topk
TopKs == {1, topk, NumClasses}

InitInfer ==
    /\ i_pc = "reading"
    /\ video_len \in (0..MaxVideo) \cup {Endless}
    /\ video_frame \in VideoFrames
    /\ pos = 0
    /\ ret = TRUE
    /\ sampling_rate \in 1..MaxRate
    /\ top_k \in TopKs
    /\ model \in {"pytorch", "ov_compiled"}
    /\ invoked = "none"
    /\ tie_order \in TieOrders
    /\ logits = <<>>
    /\ predictions = <<>>
    /\ pred_class_names = <<>>
    /\ p_pc = "idle"
    /\ frames = <<>>
    /\ num_frames \in 1..MaxRate
    /\ crop_size = MaxCrop
    /\ p_out = <<>>
    /\ p_scaled = <<>>
    \* the other program parts are not running
    /\ s_pc = "idle"
    /\ n_samples = 0
    /\ frame_step = 1
    /\ cov_num = 1
    /\ wav_slices = <<>>
    /\ mel_slices = <<>>
    /\ wav = <<>>
    /\ notebook = "none"
    /\ c_pc = 0
    /\ c_err = FALSE
    /\ run = 0
    /\ lost = 0
    /\ bound = <<>>
    /\ disk = {}
    /\ writes = <<>>
    /\ r_cell = "none"
    /\ r_pc = <<>>
    /\ r_seen = <<>>
    /\ r_pending = <<>>
    /\ r_saved = <<>>
    /\ r_model = <<>>
    /\ a_pc = "idle"
    /\ a_input = 0
    /\ a_wave = <<>>
    /\ a_output = 0
    /\ d_notebook = "none"
    /\ d_pc = "idle"
    /\ d_launches = <<>>
    /\ d_req = 0
    /\ d_step = 0
    /\ d_calls = <<>>
    /\ d_failed = 0
    /\ v_notebook = "none"
    /\ v_pc = "idle"
    /\ v_available = {}
    /\ v_options = {}
    /\ v_value = "AUTO"
    /\ v_selected = FALSE
    /\ v_next = 0
    /\ v_passed = <<>>
    /\ w_pc = "idle"
    /\ w_i = 0
    /\ w_clock = 0
    /\ w_dir = {}
    /\ w_cwd = {}
    /\ w_names = <<>>
    /\ w_writes = <<>>
    /\ w_req = 0
    /\ k_pc = "idle"
    /\ k_model = <<>>
    /\ k_calls = <<>>
    /\ cc_pc = "idle"
    /\ cc_size = 1
    /\ cc_frame = NoneFrame
    /\ cc_input = NoneFrame
    /\ cc_out = <<>>
    /\ n_pc = "idle"
    /\ n_size = 1
    /\ n_frame = NoneFrame
    /\ n_pixel = 0
    /\ n_array = <<>>
    /\ n_divs = 0
    /\ n_rescaled = FALSE

\* seq_length = num_frames * sampling_rate
seq_length == num_frames * sampling_rate

\* mutant of ReadFrame: a failed read repeats the frame of the video
ReadFrame_Repeat ==
    /\ i_pc = "reading"
    /\ ret /\ Len(frames) < seq_length
    /\ frames' = Append(frames, video_frame)
    /\ IF video_len = Endless \/ pos < video_len
       THEN ret' = TRUE /\ pos' = pos + 1
       ELSE ret' = FALSE /\ pos' = pos
    /\ UNCHANGED <<i_pc, video_len, video_frame, tie_order, sampling_rate, top_k, model, invoked,
                   logits, predictions, pred_class_names, p_pc, num_frames, crop_size, p_out,
                   p_scaled>>
    /\ UNCHANGED notInfer

\* one iteration of the loop: ret, frame = video_cap.read(); frames.append(frame)
ReadFrame ==
    /\ i_pc = "reading"
    /\ ret /\ Len(frames) < seq_length
    /\ IF video_len = Endless \/ pos < video_len
       THEN /\ ret' = TRUE
            /\ frames' = Append(frames, video_frame)
            /\ pos' = pos + 1
       ELSE /\ ret' = FALSE
            /\ frames' = Append(frames, NoneFrame)
            /\ pos' = pos
    /\ UNCHANGED <<i_pc, video_len, video_frame, tie_order, sampling_rate, top_k, model, invoked,
                   logits, predictions, pred_class_names, p_pc, num_frames, crop_size, p_out,
                   p_scaled>>
    /\ UNCHANGED notInfer

\* mutant of EndReading: the loop ends on a failed read only
EndReading_OnFailure ==
    /\ i_pc = "reading"
    /\ ~ret
    /\ i_pc' = "preprocess"
    /\ UNCHANGED <<video_len, video_frame, tie_order, pos, ret, sampling_rate, top_k, model, invoked,
                   logits, predictions, pred_class_names, preVars>>
    /\ UNCHANGED notInfer

\* the loop condition fails
EndReading ==
    /\ i_pc = "reading"
    /\ ~(ret /\ Len(frames) < seq_length)
    /\ i_pc' = "preprocess"
    /\ UNCHANGED <<video_len, video_frame, tie_order, pos, ret, sampling_rate, top_k, model, invoked,
                   logits, predictions, pred_class_names, preVars>>
    /\ UNCHANGED notInfer

\* inputs = process_inputs(frames=frames, ...); a None frame has no shape
InferProcessInputs ==
    /\ i_pc = "preprocess"
    /\ IF /\ \A k \in 1..Len(frames) : frames[k] # NoneFrame
          /\ process_inputs_ok(frames, crop_size)
       THEN /\ p_out' = process_inputs(frames, num_frames, crop_size)
            /\ i_pc' = "invoke"
       ELSE /\ p_out' = p_out
            /\ i_pc' = "error"
    /\ p_scaled' = IF \A k \in 1..Len(frames) : frames[k] # NoneFrame
                   THEN Scaled(frames, crop_size) ELSE p_scaled
    /\ UNCHANGED <<video_len, video_frame, tie_order, pos, ret, sampling_rate, top_k, model, invoked,
                   logits, predictions, pred_class_names, p_pc, frames, num_frames, crop_size>>
    /\ UNCHANGED notInfer

\* predictions = model(inputs)[output_blob] or model([torch.from_numpy(inp) ...]),
\* then predictions = softmax(predictions)
InvokeModel ==
    /\ i_pc = "invoke"
    /\ \E x \in [Classes -> Logits] :
          /\ logits' = x
          /\ predictions' = softmax(x)
    /\ invoked' = model
    /\ i_pc' = "postprocess"
    /\ UNCHANGED <<video_len, video_frame, tie_order, pos, ret, sampling_rate, top_k, model,
                   pred_class_names, preVars>>
    /\ UNCHANGED notInfer

\* [id_to_label_mapping[int(i)] for i in pred_classes[0]]
Labels(pred_classes) ==
    [j \in 1..Len(pred_classes) |-> id_to_label_mapping(pred_classes[j])]

\* mutant of TopLabels: the order of equal predictions depends on the runner
TopLabels_PerRunner ==
    /\ i_pc = "postprocess"
    /\ pred_class_names' =
           Labels(TopSlice(argsort_desc(predictions, NumClasses,
                                        IF model = "pytorch" THEN "index_ascending"
                                        ELSE "index_descending"), top_k))
    /\ i_pc' = "done"
    /\ UNCHANGED <<video_len, video_frame, tie_order, pos, ret, sampling_rate, top_k, model, invoked,
                   logits, predictions, preVars>>
    /\ UNCHANGED notInfer

\* pred_classes = np.argsort(-1 * predictions, axis=1)[:, :topk], mapped to labels
TopLabels ==
    /\ i_pc = "postprocess"
    /\ pred_class_names' =
           Labels(TopSlice(argsort_desc(predictions, NumClasses, tie_order), top_k))
    /\ i_pc' = "done"
    /\ UNCHANGED <<video_len, video_frame, tie_order, pos, ret, sampling_rate, top_k, model, invoked,
                   logits, predictions, preVars>>
    /\ UNCHANGED notInfer

NextInfer == ReadFrame \/ EndReading \/ InferProcessInputs \/ InvokeModel \/ TopLabels

SpecInfer == InitInfer /\ [][NextInfer]_vars

\* the while loop alone: the interpreter keeps executing it, so an iteration
\* or the exit that is possible is eventually taken
NextReadLoop == ReadFrame \/ EndReading

SpecReadLoop ==
    InitInfer /\ [][NextReadLoop]_vars /\ WF_vars(ReadFrame) /\ WF_vars(EndReading)

(***************************************************************************)
(* The conversion cells.  A cell is [kind, onnx, xml, bin, var]:           *)
(*   "guarded_all"        if not xml.exists(): export, convert, save       *)
(*                        else: read_model                                 *)
(*   "export"             torch.onnx.export, unguarded                     *)
(*   "guarded_ir"         if not xml.exists(): convert, save               *)
(*                        else: read_model                                 *)
(*   "export_guarded_ir"  torch.onnx.export, then as "guarded_ir"          *)
(*   "convert_save"       convert_model and save_model, unguarded          *)
(*   "read"               core.read_model                                  *)
(***************************************************************************)
Cell(kind, base_onnx, base_ir, var) ==
    [kind |-> kind, onnx |-> base_onnx \o ".onnx", xml |-> base_ir \o ".xml",
     bin |-> base_ir \o ".bin", var |-> var]

Cells(nb) ==
    CASE nb = "encodec" ->
            <<Cell("guarded_all", "encodec_encoder", "encodec_encoder", "encoder_ov"),
              Cell("guarded_all", "encodec_decoder", "encodec_decoder", "decoder_ov")>>
      [] nb = "freevc" ->
            <<Cell("export", "output/cmodel_fp32", "output/cmodel_ir", "ir_cmodel"),
              Cell("guarded_ir", "output/cmodel_fp32", "output/cmodel_ir", "ir_cmodel"),
              Cell("export", "output/smodel_fp32", "output/smodelir", "ir_smodel"),
              Cell("guarded_ir", "output/smodel_fp32", "output/smodelir", "ir_smodel"),
              Cell("export_guarded_ir", "output/net_g_fp32", "output/net_gir", "ir_net_g_model")>>
      [] nb = "slowfast" ->
            <<Cell("export", "model/slowfast-r50", "model/slowfast-r50", "model"),
              Cell("convert_save", "model/slowfast-r50", "model/slowfast-r50", "model"),
              Cell("read", "model/slowfast-r50", "model/slowfast-r50", "conv_model")>>

Notebooks == {"encodec", "freevc", "slowfast"}

CellSet(nb) == {Cells(nb)[k] : k \in 1..Len(Cells(nb))}

\* the files a notebook's conversion step leaves on the disk
ArtifactsOf(nb) == UNION {{c.onnx, c.xml, c.bin} : c \in CellSet(nb)}

Files == UNION {ArtifactsOf(nb) : nb \in Notebooks}

KernelVars == UNION {{c.var : c \in CellSet(nb)} : nb \in Notebooks}

\* a file is written: it exists afterwards and its write count goes up
WriteFiles(st, F) ==
    [st EXCEPT !.disk = st.disk \cup F,
               !.writes = [f \in Files |-> IF f \in F THEN st.writes[f] + 1 ELSE st.writes[f]]]

\* torch.onnx.export(model, dummy_input, onnx_path)
Export(c, st) == WriteFiles(st, {c.onnx})

\* ir = ov.convert_model(onnx_path); ov.save_model(ir, xml_path)
ConvertSave(c, st) ==
    IF c.onnx \notin st.disk
    THEN [st EXCEPT !.ok = FALSE]
    ELSE [WriteFiles(st, {c.xml, c.bin}) EXCEPT !.bound[c.var] = "converted"]

\* ir = core.read_model(xml_path): needs the .xml and the .bin next to it
ReadModel(c, st) ==
    IF c.xml \in st.disk /\ c.bin \in st.disk
    THEN [st EXCEPT !.bound[c.var] = "read"]
    ELSE [st EXCEPT !.ok = FALSE]

\* mutant of GuardSkips: the guard looks at the weights file
GuardSkips_Bin(c, st) == c.bin \in st.disk

\* mutant of GuardSkips: the guard needs the structure and the weights file
GuardSkips_Both(c, st) == c.xml \in st.disk /\ c.bin \in st.disk

\* mutant of GuardSkips: the cell converts on every run
GuardSkips_Never(c, st) == FALSE

\* the else branch is taken: not xml_path.exists() is false
GuardSkips(c, st) == c.xml \in st.disk

Guarded(c, st) == IF GuardSkips(c, st) THEN ReadModel(c, st) ELSE ConvertSave(c, st)

\* the effect of running cell c in state st = [disk, writes, bound, ok]
RunCell(c, st) ==
    CASE c.kind = "guarded_all" ->
            IF GuardSkips(c, st) THEN ReadModel(c, st) ELSE ConvertSave(c, Export(c, st))
      [] c.kind = "export" -> Export(c, st)
      [] c.kind = "guarded_ir" -> Guarded(c, st)
      [] c.kind = "export_guarded_ir" -> Guarded(c, Export(c, st))
      [] c.kind = "convert_save" -> ConvertSave(c, st)
      [] c.kind = "read" -> ReadModel(c, st)

Unbound == [v \in KernelVars |-> "unbound"]

InitConv ==
    /\ notebook \in Notebooks
    /\ c_pc = 1
    /\ c_err = FALSE
    /\ run = 1
    /\ lost = 0
    /\ disk = {}
    /\ writes = [f \in Files |-> 0]
    /\ bound = Unbound
    \* the other program parts are not running
    /\ s_pc = "idle"
    /\ n_samples = 0
    /\ frame_step = 1
    /\ cov_num = 1
    /\ wav_slices = <<>>
    /\ mel_slices = <<>>
    /\ wav = <<>>
    /\ p_pc = "idle"
    /\ frames = <<>>
    /\ num_frames = 1
    /\ crop_size = 1
    /\ p_out = <<>>
    /\ p_scaled = <<>>
    /\ i_pc = "idle"
    /\ video_len = 0
    /\ video_frame = NoneFrame
    /\ pos = 0
    /\ ret = TRUE
    /\ sampling_rate = 1
    /\ top_k = 1
    /\ model = "pytorch"
    /\ invoked = "none"
    /\ tie_order = "index_ascending"
    /\ logits = <<>>
    /\ predictions = <<>>
    /\ pred_class_names = <<>>
    /\ r_cell = "none"
    /\ r_pc = <<>>
    /\ r_seen = <<>>
    /\ r_pending = <<>>
    /\ r_saved = <<>>
    /\ r_model = <<>>
    /\ a_pc = "idle"
    /\ a_input = 0
    /\ a_wave = <<>>
    /\ a_output = 0
    /\ d_notebook = "none"
    /\ d_pc = "idle"
    /\ d_launches = <<>>
    /\ d_req = 0
    /\ d_step = 0
    /\ d_calls = <<>>
    /\ d_failed = 0
    /\ v_notebook = "none"
    /\ v_pc = "idle"
    /\ v_available = {}
    /\ v_options = {}
    /\ v_value = "AUTO"
    /\ v_selected = FALSE
    /\ v_next = 0
    /\ v_passed = <<>>
    /\ w_pc = "idle"
    /\ w_i = 0
    /\ w_clock = 0
    /\ w_dir = {}
    /\ w_cwd = {}
    /\ w_names = <<>>
    /\ w_writes = <<>>
    /\ w_req = 0
    /\ k_pc = "idle"
    /\ k_model = <<>>
    /\ k_calls = <<>>
    /\ cc_pc = "idle"
    /\ cc_size = 1
    /\ cc_frame = NoneFrame
    /\ cc_input = NoneFrame
    /\ cc_out = <<>>
    /\ n_pc = "idle"
    /\ n_size = 1
    /\ n_frame = NoneFrame
    /\ n_pixel = 0
    /\ n_array = <<>>
    /\ n_divs = 0
    /\ n_rescaled = FALSE

\* the next cell of the notebook runs; a cell that raises stops the run
ExecCell ==
    /\ ~c_err
    /\ c_pc <= Len(Cells(notebook))
    /\ LET r == RunCell(Cells(notebook)[c_pc],
                        [disk |-> disk, writes |-> writes, bound |-> bound, ok |-> TRUE])
       IN  /\ disk' = r.disk
           /\ writes' = r.writes
           /\ bound' = r.bound
           /\ c_err' = ~r.ok
           /\ c_pc' = IF r.ok THEN c_pc + 1 ELSE c_pc
    /\ UNCHANGED <<notebook, run, lost>>
    /\ UNCHANGED notConv

\* the notebook is run again, in the same kernel or in a restarted one
Rerun ==
    /\ c_err \/ c_pc = Len(Cells(notebook)) + 1
    /\ run < MaxRuns
    /\ run' = run + 1
    /\ c_pc' = 1
    /\ c_err' = FALSE
    /\ bound' \in {bound, Unbound}
    /\ UNCHANGED <<notebook, lost, disk, writes>>
    /\ UNCHANGED notConv

\* between two runs a file disappears (deleted, or lost by an interrupted write)
LoseFile ==
    /\ ~c_err
    /\ c_pc = 1
    /\ lost < MaxLost
    /\ \E f \in disk : disk' = disk \ {f}
    /\ lost' = lost + 1
    /\ UNCHANGED <<notebook, c_pc, c_err, run, writes, bound>>
    /\ UNCHANGED notConv

NextConv == ExecCell \/ Rerun \/ LoseFile

SpecConv == InitConv /\ [][NextConv]_vars

(***************************************************************************)
(* Two processes run the same guarded conversion cell on the same path.    *)
(* The cell is not atomic: the exists() test, the export, the conversion   *)
(* and each file written by save_model are separate steps.                 *)
(***************************************************************************)
Procs == 1..NumProcs

\* the cells of the EnCodec encoder and of the FreeVC speaker encoder IR
RaceCells == {Cells("encodec")[1], Cells("freevc")[4]}

\* what is on the disk when the cell starts: the ONNX file of the cell before
\* it (FreeVC), with or without the artifact of an earlier run
RaceDisks(c) ==
    LET base == IF c.kind = "guarded_all" THEN {} ELSE {c.onnx}
    IN  {base, base \cup {c.onnx, c.xml, c.bin}}

InitRace ==
    /\ r_cell \in RaceCells
    /\ r_pc = [p \in Procs |-> "check"]
    /\ r_seen = [p \in Procs |-> "unset"]
    /\ r_pending = [p \in Procs |-> {}]
    /\ r_saved = [p \in Procs |-> 0]
    /\ r_model = [p \in Procs |-> "unbound"]
    /\ disk \in RaceDisks(r_cell)
    /\ writes = [f \in Files |-> 0]
    \* the other program parts are not running
    /\ s_pc = "idle"
    /\ n_samples = 0
    /\ frame_step = 1
    /\ cov_num = 1
    /\ wav_slices = <<>>
    /\ mel_slices = <<>>
    /\ wav = <<>>
    /\ p_pc = "idle"
    /\ frames = <<>>
    /\ num_frames = 1
    /\ crop_size = 1
    /\ p_out = <<>>
    /\ p_scaled = <<>>
    /\ i_pc = "idle"
    /\ video_len = 0
    /\ video_frame = NoneFrame
    /\ pos = 0
    /\ ret = TRUE
    /\ sampling_rate = 1
    /\ top_k = 1
    /\ model = "pytorch"
    /\ invoked = "none"
    /\ tie_order = "index_ascending"
    /\ logits = <<>>
    /\ predictions = <<>>
    /\ pred_class_names = <<>>
    /\ notebook = "none"
    /\ c_pc = 0
    /\ c_err = FALSE
    /\ run = 0
    /\ lost = 0
    /\ bound = <<>>
    /\ a_pc = "idle"
    /\ a_input = 0
    /\ a_wave = <<>>
    /\ a_output = 0
    /\ d_notebook = "none"
    /\ d_pc = "idle"
    /\ d_launches = <<>>
    /\ d_req = 0
    /\ d_step = 0
    /\ d_calls = <<>>
    /\ d_failed = 0
    /\ v_notebook = "none"
    /\ v_pc = "idle"
    /\ v_available = {}
    /\ v_options = {}
    /\ v_value = "AUTO"
    /\ v_selected = FALSE
    /\ v_next = 0
    /\ v_passed = <<>>
    /\ w_pc = "idle"
    /\ w_i = 0
    /\ w_clock = 0
    /\ w_dir = {}
    /\ w_cwd = {}
    /\ w_names = <<>>
    /\ w_writes = <<>>
    /\ w_req = 0
    /\ k_pc = "idle"
    /\ k_model = <<>>
    /\ k_calls = <<>>
    /\ cc_pc = "idle"
    /\ cc_size = 1
    /\ cc_frame = NoneFrame
    /\ cc_input = NoneFrame
    /\ cc_out = <<>>
    /\ n_pc = "idle"
    /\ n_size = 1
    /\ n_frame = NoneFrame
    /\ n_pixel = 0
    /\ n_array = <<>>
    /\ n_divs = 0
    /\ n_rescaled = FALSE

\* mutant of SaveRechecks: save_model is skipped when the .xml has appeared
SaveRechecks_Exists(c, d) == c.xml \in d

\* nothing tests the path again between the exists() test and save_model
SaveRechecks(c, d) == FALSE

\* if not xml_path.exists():
RCheck(p) ==
    /\ r_pc[p] = "check"
    /\ IF r_cell.xml \in disk
       THEN /\ r_seen' = [r_seen EXCEPT ![p] = "present"]
            /\ r_pc' = [r_pc EXCEPT ![p] = "read"]
       ELSE /\ r_seen' = [r_seen EXCEPT ![p] = "absent"]
            /\ r_pc' = [r_pc EXCEPT ![p] =
                          IF r_cell.kind = "guarded_all" THEN "export" ELSE "convert"]
    /\ UNCHANGED <<r_cell, r_pending, r_saved, r_model, fsVars>>
    /\ UNCHANGED notRace

\* torch.onnx.export(encoder, ..., "encodec_encoder.onnx")
RExport(p) ==
    /\ r_pc[p] = "export"
    /\ disk' = disk \cup {r_cell.onnx}
    /\ writes' = [writes EXCEPT ![r_cell.onnx] = @ + 1]
    /\ r_pc' = [r_pc EXCEPT ![p] = "convert"]
    /\ UNCHANGED <<r_cell, r_seen, r_pending, r_saved, r_model>>
    /\ UNCHANGED notRace

\* ir = ov.convert_model(onnx_path), then save_model starts unless skipped
RConvert(p) ==
    /\ r_pc[p] = "convert"
    /\ IF r_cell.onnx \notin disk
       THEN /\ r_pc' = [r_pc EXCEPT ![p] = "error"]
            /\ UNCHANGED <<r_pending, r_model>>
       ELSE /\ r_model' = [r_model EXCEPT ![p] = "converted"]
            /\ IF SaveRechecks(r_cell, disk)
               THEN /\ r_pc' = [r_pc EXCEPT ![p] = "done"]
                    /\ UNCHANGED r_pending
               ELSE /\ r_pc' = [r_pc EXCEPT ![p] = "save"]
                    /\ r_pending' = [r_pending EXCEPT ![p] = {r_cell.xml, r_cell.bin}]
    /\ UNCHANGED <<r_cell, r_seen, r_saved, fsVars>>
    /\ UNCHANGED notRace

\* ov.save_model(ir, xml_path) writes the .xml and the .bin, one after the other
RSaveWrite(p) ==
    /\ r_pc[p] = "save"
    /\ \E f \in r_pending[p] :
          /\ disk' = disk \cup {f}
          /\ writes' = [writes EXCEPT ![f] = @ + 1]
          /\ r_pending' = [r_pending EXCEPT ![p] = @ \ {f}]
          /\ IF r_pending[p] = {f}
             THEN /\ r_pc' = [r_pc EXCEPT ![p] = "done"]
                  /\ r_saved' = [r_saved EXCEPT ![p] = @ + 1]
             ELSE UNCHANGED <<r_pc, r_saved>>
    /\ UNCHANGED <<r_cell, r_seen, r_model>>
    /\ UNCHANGED notRace

\* ir = core.read_model(xml_path)
RRead(p) ==
    /\ r_pc[p] = "read"
    /\ IF r_cell.xml \in disk /\ r_cell.bin \in disk
       THEN /\ r_model' = [r_model EXCEPT ![p] = "read"]
            /\ r_pc' = [r_pc EXCEPT ![p] = "done"]
       ELSE /\ r_pc' = [r_pc EXCEPT ![p] = "error"]
            /\ UNCHANGED r_model
    /\ UNCHANGED <<r_cell, r_seen, r_pending, r_saved, fsVars>>
    /\ UNCHANGED notRace

NextRace == \E p \in Procs : RCheck(p) \/ RExport(p) \/ RConvert(p) \/ RSaveWrite(p) \/ RRead(p)

SpecRace == InitRace /\ [][NextRace]_vars

(***************************************************************************)
(* preprocess and postprocess of the EnCodec demo, on one sample.  A       *)
(* float32 value is [m, e], standing for m * 2^e with |m| < 2^24, so the   *)
(* conversion of an int16 and the scaling by 2**15 are exact, as in        *)
(* float32.  Casting a float outside the int16 range to np.int16 is        *)
(* undefined in C: a build wraps modulo 2^16 or saturates.                 *)
(***************************************************************************)
Int16Min == 0 - Pow2(Int16Bits - 1)

Int16Max == Pow2(Int16Bits - 1) - 1

Int16 == Int16Min..Int16Max

\* a_input of a wave that did not come from preprocess
NoSample == Int16Max + 1

\* torch.tensor(input, dtype=torch.float32)
Float32(n) == [m |-> n, e |-> 0]

\* x * 2**k, k < 0 for a division
ScalePow2(x, k) == [m |-> x.m, e |-> x.e + k]

\* the integer part, towards zero
Trunc(x) ==
    IF x.e >= 0 THEN x.m * Pow2(x.e)
    ELSE IF x.m >= 0 THEN x.m \div Pow2(0 - x.e)
    ELSE 0 - ((0 - x.m) \div Pow2(0 - x.e))

\* v reduced modulo 2^16 into the int16 range
Wrap(v) == ((v - Int16Min) % Pow2(Int16Bits)) + Int16Min

Saturate(v) == IF v > Int16Max THEN Int16Max ELSE IF v < Int16Min THEN Int16Min ELSE v

\* output.astype(np.int16): the values a build can produce
AsInt16(x) ==
    IF Trunc(x) \in Int16 THEN {Trunc(x)} ELSE {Wrap(Trunc(x)), Saturate(Trunc(x))}

\* mutant of preprocess: the sample is divided by 2**16
preprocess_Scale16(input) == ScalePow2(Float32(input), 0 - ScaleExp - 1)

\* input = torch.tensor(input, dtype=torch.float32); input = input / 2**15;
\* convert_audio changes nothing for the model's sample rate and channels
preprocess(input) == ScalePow2(Float32(input), 0 - ScaleExp)

\* output = output * 2**15; output.astype(np.int16)
postprocess(output) == AsInt16(ScalePow2(output, ScaleExp))

\* the samples a decoder returns, in units of 2^-16: around 0 and around the
\* two ends of the int16 range, up to MaxOver int16 steps beyond each end
DecodedWaves ==
    {[m |-> h, e |-> 0 - ScaleExp - 1] :
        h \in {k \in (2 * (Int16Min - MaxOver))..(2 * (Int16Max + MaxOver + 1)) :
                  \/ k <= 2 * (Int16Min + MaxOver)
                  \/ (0 - 2 * MaxOver <= k /\ k <= 2 * MaxOver)
                  \/ k >= 2 * (Int16Max - MaxOver)}}

InitAudio ==
    /\ \/ /\ a_pc = "input"
          /\ a_input \in Int16
          /\ a_wave = <<>>
       \/ /\ a_pc = "decoded"
          /\ a_input = NoSample
          /\ a_wave \in DecodedWaves
    /\ a_output = 0
    \* the other program parts are not running
    /\ s_pc = "idle"
    /\ n_samples = 0
    /\ frame_step = 1
    /\ cov_num = 1
    /\ wav_slices = <<>>
    /\ mel_slices = <<>>
    /\ wav = <<>>
    /\ p_pc = "idle"
    /\ frames = <<>>
    /\ num_frames = 1
    /\ crop_size = 1
    /\ p_out = <<>>
    /\ p_scaled = <<>>
    /\ i_pc = "idle"
    /\ video_len = 0
    /\ video_frame = NoneFrame
    /\ pos = 0
    /\ ret = TRUE
    /\ sampling_rate = 1
    /\ top_k = 1
    /\ model = "pytorch"
    /\ invoked = "none"
    /\ tie_order = "index_ascending"
    /\ logits = <<>>
    /\ predictions = <<>>
    /\ pred_class_names = <<>>
    /\ notebook = "none"
    /\ c_pc = 0
    /\ c_err = FALSE
    /\ run = 0
    /\ lost = 0
    /\ disk = {}
    /\ writes = <<>>
    /\ bound = <<>>
    /\ r_cell = "none"
    /\ r_pc = <<>>
    /\ r_seen = <<>>
    /\ r_pending = <<>>
    /\ r_saved = <<>>
    /\ r_model = <<>>
    /\ d_notebook = "none"
    /\ d_pc = "idle"
    /\ d_launches = <<>>
    /\ d_req = 0
    /\ d_step = 0
    /\ d_calls = <<>>
    /\ d_failed = 0
    /\ v_notebook = "none"
    /\ v_pc = "idle"
    /\ v_available = {}
    /\ v_options = {}
    /\ v_value = "AUTO"
    /\ v_selected = FALSE
    /\ v_next = 0
    /\ v_passed = <<>>
    /\ w_pc = "idle"
    /\ w_i = 0
    /\ w_clock = 0
    /\ w_dir = {}
    /\ w_cwd = {}
    /\ w_names = <<>>
    /\ w_writes = <<>>
    /\ w_req = 0
    /\ k_pc = "idle"
    /\ k_model = <<>>
    /\ k_calls = <<>>
    /\ cc_pc = "idle"
    /\ cc_size = 1
    /\ cc_frame = NoneFrame
    /\ cc_input = NoneFrame
    /\ cc_out = <<>>
    /\ n_pc = "idle"
    /\ n_size = 1
    /\ n_frame = NoneFrame
    /\ n_pixel = 0
    /\ n_array = <<>>
    /\ n_divs = 0
    /\ n_rescaled = FALSE

\* waveform = preprocess(waveform, sample_rate, model_sr, model_channels)
Preprocess ==
    /\ a_pc = "input"
    /\ a_wave' = preprocess(a_input)
    /\ a_pc' = "decoded"
    /\ UNCHANGED <<a_input, a_output>>
    /\ UNCHANGED notAudio

\* out = postprocess(out)
Postprocess ==
    /\ a_pc = "decoded"
    /\ a_output' \in postprocess(a_wave)
    /\ a_pc' = "output"
    /\ UNCHANGED <<a_input, a_wave>>
    /\ UNCHANGED notAudio

NextAudio == Preprocess \/ Postprocess

SpecAudio == InitAudio /\ [][NextAudio]_vars

(***************************************************************************)
(* The gradio demo cells.  EnCodec: try: demo.launch(debug=True)           *)
(* except Exception: demo.launch(share=True, debug=True); its handler      *)
(* _compress calls preprocess, compress, decompress, postprocess.  FreeVC: *)
(* iface.launch(); its handler infer calls synthesize_audio and write.     *)
(* A call returns or raises; an exception is an Exception or another       *)
(* BaseException (KeyboardInterrupt), which except Exception lets through. *)
(***************************************************************************)
Demos == {"encodec", "freevc"}

\* the calls of the request handler, in order
HandlerSteps(nb) ==
    IF nb = "encodec" THEN <<"preprocess", "compress", "decompress", "postprocess">>
    ELSE <<"synthesize_audio", "write">>

\* the launch stands in a try block with an except Exception clause
LaunchGuarded(nb) == nb = "encodec"

Outcomes == {"returned", "Exception", "BaseException"}

NoCalls(nb) == [j \in 1..Len(HandlerSteps(nb)) |-> 0]

InitDemo ==
    /\ d_notebook \in Demos
    /\ d_pc = "launch"
    /\ d_launches = <<>>
    /\ d_req = 0
    /\ d_step = 0
    /\ d_calls = NoCalls(d_notebook)
    /\ d_failed = 0
    \* the other program parts are not running
    /\ s_pc = "idle"
    /\ n_samples = 0
    /\ frame_step = 1
    /\ cov_num = 1
    /\ wav_slices = <<>>
    /\ mel_slices = <<>>
    /\ wav = <<>>
    /\ p_pc = "idle"
    /\ frames = <<>>
    /\ num_frames = 1
    /\ crop_size = 1
    /\ p_out = <<>>
    /\ p_scaled = <<>>
    /\ i_pc = "idle"
    /\ video_len = 0
    /\ video_frame = NoneFrame
    /\ pos = 0
    /\ ret = TRUE
    /\ sampling_rate = 1
    /\ top_k = 1
    /\ model = "pytorch"
    /\ invoked = "none"
    /\ tie_order = "index_ascending"
    /\ logits = <<>>
    /\ predictions = <<>>
    /\ pred_class_names = <<>>
    /\ notebook = "none"
    /\ c_pc = 0
    /\ c_err = FALSE
    /\ run = 0
    /\ lost = 0
    /\ disk = {}
    /\ writes = <<>>
    /\ bound = <<>>
    /\ r_cell = "none"
    /\ r_pc = <<>>
    /\ r_seen = <<>>
    /\ r_pending = <<>>
    /\ r_saved = <<>>
    /\ r_model = <<>>
    /\ a_pc = "idle"
    /\ a_input = 0
    /\ a_wave = <<>>
    /\ a_output = 0
    /\ v_notebook = "none"
    /\ v_pc = "idle"
    /\ v_available = {}
    /\ v_options = {}
    /\ v_value = "AUTO"
    /\ v_selected = FALSE
    /\ v_next = 0
    /\ v_passed = <<>>
    /\ w_pc = "idle"
    /\ w_i = 0
    /\ w_clock = 0
    /\ w_dir = {}
    /\ w_cwd = {}
    /\ w_names = <<>>
    /\ w_writes = <<>>
    /\ w_req = 0
    /\ k_pc = "idle"
    /\ k_model = <<>>
    /\ k_calls = <<>>
    /\ cc_pc = "idle"
    /\ cc_size = 1
    /\ cc_frame = NoneFrame
    /\ cc_input = NoneFrame
    /\ cc_out = <<>>
    /\ n_pc = "idle"
    /\ n_size = 1
    /\ n_frame = NoneFrame
    /\ n_pixel = 0
    /\ n_array = <<>>
    /\ n_divs = 0
    /\ n_rescaled = FALSE

\* demo.launch(debug=True) / iface.launch()
Launch ==
    /\ d_pc = "launch"
    /\ \E o \in Outcomes :
          /\ d_launches' = Append(d_launches, [share |-> FALSE, outcome |-> o])
          /\ d_pc' = IF o = "returned" THEN "serving"
                     ELSE IF o = "Exception" /\ LaunchGuarded(d_notebook) THEN "except"
                     ELSE "raised"
    /\ UNCHANGED <<d_notebook, d_req, d_step, d_calls, d_failed>>
    /\ UNCHANGED notDemo

\* mutant of LaunchShared: the launch is repeated until it returns
LaunchShared_Retry ==
    /\ d_pc = "except"
    /\ \E o \in Outcomes :
          /\ d_launches' = Append(d_launches, [share |-> TRUE, outcome |-> o])
          /\ d_pc' = IF o = "returned" THEN "serving" ELSE "except"
    /\ UNCHANGED <<d_notebook, d_req, d_step, d_calls, d_failed>>
    /\ UNCHANGED notDemo

\* except Exception: demo.launch(share=True, debug=True)
LaunchShared ==
    /\ d_pc = "except"
    /\ \E o \in Outcomes :
          /\ d_launches' = Append(d_launches, [share |-> TRUE, outcome |-> o])
          /\ d_pc' = IF o = "returned" THEN "serving" ELSE "raised"
    /\ UNCHANGED <<d_notebook, d_req, d_step, d_calls, d_failed>>
    /\ UNCHANGED notDemo

\* a user submits a request: gradio calls the handler
Submit ==
    /\ d_pc = "serving"
    /\ d_req < MaxRequests
    /\ d_req' = d_req + 1
    /\ d_step' = 1
    /\ d_calls' = NoCalls(d_notebook)
    /\ d_pc' = "request"
    /\ UNCHANGED <<d_notebook, d_launches, d_failed>>
    /\ UNCHANGED notDemo

\* the next call of the handler returns
StepReturns ==
    /\ d_pc = "request"
    /\ d_calls' = [d_calls EXCEPT ![d_step] = @ + 1]
    /\ IF d_step = Len(HandlerSteps(d_notebook))
       THEN d_pc' = "serving" /\ d_step' = 0
       ELSE d_pc' = "request" /\ d_step' = d_step + 1
    /\ UNCHANGED <<d_notebook, d_launches, d_req, d_failed>>
    /\ UNCHANGED notDemo

\* the next call of the handler raises: the handler has no try block, the
\* exception leaves it and gradio reports the error for this request
StepRaises ==
    /\ d_pc = "request"
    /\ d_calls' = [d_calls EXCEPT ![d_step] = @ + 1]
    /\ d_failed' = d_failed + 1
    /\ d_pc' = "serving"
    /\ UNCHANGED <<d_notebook, d_launches, d_req, d_step>>
    /\ UNCHANGED notDemo

NextDemo == Launch \/ LaunchShared \/ Submit \/ StepReturns \/ StepRaises

SpecDemo == InitDemo /\ [][NextDemo]_vars

(***************************************************************************)
(* The device dropdown and the compile_model calls.  The dropdown is       *)
(* created with options = core.available_devices + ["AUTO"] and value      *)
(* "AUTO"; a later cell passes device.value to core.compile_model.  The    *)
(* environment can add or remove a device at any time; the user picks an   *)
(* option while no cell is running.                                        *)
(***************************************************************************)
\* the devices of the machine, as in the saved dropdown of the SlowFast notebook
Devices == {"CPU", "GPU"}

\* the cell of each compile_model call, in order: EnCodec compiles the
\* encoder and the decoder in one cell, FreeVC has three cells, SlowFast one
CompileCells(nb) ==
    CASE nb = "encodec" -> <<1, 1>>
      [] nb = "freevc" -> <<1, 2, 3>>
      [] nb = "slowfast" -> <<1>>

\* no cell is running before the next compile_model call
BetweenCells ==
    IF v_next = 1 \/ v_next > Len(CompileCells(v_notebook))
    THEN TRUE
    ELSE CompileCells(v_notebook)[v_next] # CompileCells(v_notebook)[v_next - 1]

\* core.compile_model(model, name) raises for a device that is not there
CompileRaises(name, available) ==
    IF name = "AUTO" THEN available = {} ELSE name \notin available

InitDevice ==
    /\ v_notebook \in Notebooks
    /\ v_pc = "widget"
    /\ v_available \in SUBSET Devices
    /\ v_options = {}
    /\ v_value = "AUTO"
    /\ v_selected = FALSE
    /\ v_next = 1
    /\ v_passed = <<>>
    \* the other program parts are not running
    /\ s_pc = "idle"
    /\ n_samples = 0
    /\ frame_step = 1
    /\ cov_num = 1
    /\ wav_slices = <<>>
    /\ mel_slices = <<>>
    /\ wav = <<>>
    /\ p_pc = "idle"
    /\ frames = <<>>
    /\ num_frames = 1
    /\ crop_size = 1
    /\ p_out = <<>>
    /\ p_scaled = <<>>
    /\ i_pc = "idle"
    /\ video_len = 0
    /\ video_frame = NoneFrame
    /\ pos = 0
    /\ ret = TRUE
    /\ sampling_rate = 1
    /\ top_k = 1
    /\ model = "pytorch"
    /\ invoked = "none"
    /\ tie_order = "index_ascending"
    /\ logits = <<>>
    /\ predictions = <<>>
    /\ pred_class_names = <<>>
    /\ notebook = "none"
    /\ c_pc = 0
    /\ c_err = FALSE
    /\ run = 0
    /\ lost = 0
    /\ disk = {}
    /\ writes = <<>>
    /\ bound = <<>>
    /\ r_cell = "none"
    /\ r_pc = <<>>
    /\ r_seen = <<>>
    /\ r_pending = <<>>
    /\ r_saved = <<>>
    /\ r_model = <<>>
    /\ a_pc = "idle"
    /\ a_input = 0
    /\ a_wave = <<>>
    /\ a_output = 0
    /\ d_notebook = "none"
    /\ d_pc = "idle"
    /\ d_launches = <<>>
    /\ d_req = 0
    /\ d_step = 0
    /\ d_calls = <<>>
    /\ d_failed = 0
    /\ w_pc = "idle"
    /\ w_i = 0
    /\ w_clock = 0
    /\ w_dir = {}
    /\ w_cwd = {}
    /\ w_names = <<>>
    /\ w_writes = <<>>
    /\ w_req = 0
    /\ k_pc = "idle"
    /\ k_model = <<>>
    /\ k_calls = <<>>
    /\ cc_pc = "idle"
    /\ cc_size = 1
    /\ cc_frame = NoneFrame
    /\ cc_input = NoneFrame
    /\ cc_out = <<>>
    /\ n_pc = "idle"
    /\ n_size = 1
    /\ n_frame = NoneFrame
    /\ n_pixel = 0
    /\ n_array = <<>>
    /\ n_divs = 0
    /\ n_rescaled = FALSE

\* device = widgets.Dropdown(options=core.available_devices + ["AUTO"], value='AUTO')
CreateDropdown ==
    /\ v_pc = "widget"
    /\ v_options' = v_available \cup {"AUTO"}
    /\ v_value' = "AUTO"
    /\ v_pc' = "ready"
    /\ UNCHANGED <<v_notebook, v_available, v_selected, v_next, v_passed>>
    /\ UNCHANGED notDevice

\* the user picks an option of the dropdown
Select ==
    /\ v_pc = "ready"
    /\ BetweenCells
    /\ \E d \in v_options :
          /\ d # v_value
          /\ v_value' = d
    /\ v_selected' = TRUE
    /\ UNCHANGED <<v_notebook, v_pc, v_available, v_options, v_next, v_passed>>
    /\ UNCHANGED notDevice

\* the environment: a device appears or disappears
DevicesChange ==
    /\ v_pc \in {"widget", "ready"}
    /\ \E d \in Devices :
          v_available' = IF d \in v_available THEN v_available \ {d} ELSE v_available \cup {d}
    /\ UNCHANGED <<v_notebook, v_pc, v_options, v_value, v_selected, v_next, v_passed>>
    /\ UNCHANGED notDevice

\* mutant of Compile: a device that is not available is replaced by AUTO
Compile_Fallback ==
    /\ v_pc = "ready"
    /\ v_next <= Len(CompileCells(v_notebook))
    /\ LET name == IF v_value \in v_available THEN v_value ELSE "AUTO"
           raised == CompileRaises(name, v_available)
       IN  /\ v_passed' = Append(v_passed, [name |-> name, requested |-> v_value,
                                             available |-> v_available, raised |-> raised])
           /\ v_pc' = IF raised THEN "failed"
                      ELSE IF v_next = Len(CompileCells(v_notebook)) THEN "done" ELSE "ready"
    /\ v_next' = v_next + 1
    /\ UNCHANGED <<v_notebook, v_available, v_options, v_value, v_selected>>
    /\ UNCHANGED notDevice

\* core.compile_model(model, device.value)
Compile ==
    /\ v_pc = "ready"
    /\ v_next <= Len(CompileCells(v_notebook))
    /\ LET name == v_value
           raised == CompileRaises(name, v_available)
       IN  /\ v_passed' = Append(v_passed, [name |-> name, requested |-> v_value,
                                             available |-> v_available, raised |-> raised])
           /\ v_pc' = IF raised THEN "failed"
                      ELSE IF v_next = Len(CompileCells(v_notebook)) THEN "done" ELSE "ready"
    /\ v_next' = v_next + 1
    /\ UNCHANGED <<v_notebook, v_available, v_options, v_value, v_selected>>
    /\ UNCHANGED notDevice

NextDevice == CreateDropdown \/ Select \/ DevicesChange \/ Compile

SpecDevice == InitDevice /\ [][NextDevice]_vars

(***************************************************************************)
(* The FreeVC inference loops.  Each iteration converts one (src, tgt)     *)
(* pair and writes the result under a name made of the current local time  *)
(* formatted with "%m-%d_%H-%M".  The native loop runs first, the loop     *)
(* over the compiled models later, then the demo serves requests through   *)
(* infer.  The clock advances between any two steps.                       *)
(***************************************************************************)
\* time.strftime("%m-%d_%H-%M", time.localtime()): the minute of the clock
strftime(clock) == clock \div TicksPerMinute

\* f'{timestamp}.wav'
ResultName(clock) == [stem |-> strftime(clock), ext |-> "wav"]

Pairs == 1..NumPairs

\* scipy.io.wavfile.write(path, rate, data): the file is created or replaced
WriteWav(dir, name, loop, pair) ==
    {e \in dir : e.name # name} \cup {[name |-> name, loop |-> loop, pair |-> pair]}

InitWav ==
    /\ w_pc = "native"
    /\ w_i = 1
    /\ w_clock = 0
    /\ w_dir = {}
    /\ w_cwd = {}
    /\ w_names = <<>>
    /\ w_writes = <<>>
    /\ w_req = 0
    \* the other program parts are not running
    /\ s_pc = "idle"
    /\ n_samples = 0
    /\ frame_step = 1
    /\ cov_num = 1
    /\ wav_slices = <<>>
    /\ mel_slices = <<>>
    /\ wav = <<>>
    /\ p_pc = "idle"
    /\ frames = <<>>
    /\ num_frames = 1
    /\ crop_size = 1
    /\ p_out = <<>>
    /\ p_scaled = <<>>
    /\ i_pc = "idle"
    /\ video_len = 0
    /\ video_frame = NoneFrame
    /\ pos = 0
    /\ ret = TRUE
    /\ sampling_rate = 1
    /\ top_k = 1
    /\ model = "pytorch"
    /\ invoked = "none"
    /\ tie_order = "index_ascending"
    /\ logits = <<>>
    /\ predictions = <<>>
    /\ pred_class_names = <<>>
    /\ notebook = "none"
    /\ c_pc = 0
    /\ c_err = FALSE
    /\ run = 0
    /\ lost = 0
    /\ disk = {}
    /\ writes = <<>>
    /\ bound = <<>>
    /\ r_cell = "none"
    /\ r_pc = <<>>
    /\ r_seen = <<>>
    /\ r_pending = <<>>
    /\ r_saved = <<>>
    /\ r_model = <<>>
    /\ a_pc = "idle"
    /\ a_input = 0
    /\ a_wave = <<>>
    /\ a_output = 0
    /\ d_notebook = "none"
    /\ d_pc = "idle"
    /\ d_launches = <<>>
    /\ d_req = 0
    /\ d_step = 0
    /\ d_calls = <<>>
    /\ d_failed = 0
    /\ v_notebook = "none"
    /\ v_pc = "idle"
    /\ v_available = {}
    /\ v_options = {}
    /\ v_value = "AUTO"
    /\ v_selected = FALSE
    /\ v_next = 0
    /\ v_passed = <<>>
    /\ k_pc = "idle"
    /\ k_model = <<>>
    /\ k_calls = <<>>
    /\ cc_pc = "idle"
    /\ cc_size = 1
    /\ cc_frame = NoneFrame
    /\ cc_input = NoneFrame
    /\ cc_out = <<>>
    /\ n_pc = "idle"
    /\ n_size = 1
    /\ n_frame = NoneFrame
    /\ n_pixel = 0
    /\ n_array = <<>>
    /\ n_divs = 0
    /\ n_rescaled = FALSE

\* the local time moves on
Tick ==
    /\ w_pc \in {"native", "openvino", "demo"}
    /\ w_clock < MaxClock
    /\ w_clock' = w_clock + 1
    /\ UNCHANGED <<w_pc, w_i, w_dir, w_cwd, w_names, w_writes, w_req>>
    /\ UNCHANGED notWav

\* one iteration of the loop over zip(srcs, tgts) with the PyTorch models
NativeIteration ==
    /\ w_pc = "native"
    /\ w_i \in Pairs
    /\ LET name == ResultName(w_clock)
       IN  /\ w_dir' = WriteWav(w_dir, name, "native", w_i)
           /\ w_writes' = Append(w_writes, [dir |-> "outputs/freevc", name |-> name,
                                            loop |-> "native", pair |-> w_i])
    /\ IF w_i = NumPairs
       THEN w_pc' = "openvino" /\ w_i' = 1
       ELSE w_pc' = w_pc /\ w_i' = w_i + 1
    /\ UNCHANGED <<w_clock, w_cwd, w_names, w_req>>
    /\ UNCHANGED notWav

\* one iteration of the loop over zip(srcs, tgts) with the compiled models
OpenVINOIteration ==
    /\ w_pc = "openvino"
    /\ w_i \in Pairs
    /\ LET name == ResultName(w_clock)
       IN  /\ w_names' = Append(w_names, name)
           /\ w_dir' = WriteWav(w_dir, name, "openvino", w_i)
           /\ w_writes' = Append(w_writes, [dir |-> "outputs/freevc", name |-> name,
                                            loop |-> "openvino", pair |-> w_i])
    /\ IF w_i = NumPairs
       THEN w_pc' = "demo" /\ w_i' = 1
       ELSE w_pc' = w_pc /\ w_i' = w_i + 1
    /\ UNCHANGED <<w_clock, w_cwd, w_req>>
    /\ UNCHANGED notWav

\* infer(src, tgt): the handler of the demo writes result_name in the
\* working directory and returns the name
Infer ==
    /\ w_pc = "demo"
    /\ w_req < MaxRequests
    /\ \E pair \in Pairs :
          LET name == ResultName(w_clock)
          IN  /\ w_cwd' = WriteWav(w_cwd, name, "infer", pair)
              /\ w_writes' = Append(w_writes, [dir |-> ".", name |-> name,
                                               loop |-> "infer", pair |-> pair])
    /\ w_req' = w_req + 1
    /\ UNCHANGED <<w_pc, w_i, w_clock, w_dir, w_names>>
    /\ UNCHANGED notWav

NextWav == Tick \/ NativeIteration \/ OpenVINOIteration \/ Infer

SpecWav == InitWav /\ [][NextWav]_vars

(***************************************************************************)
(* The EnCodec model object.  model = EncodecModel.encodec_model_24khz()   *)
(* is one instance; model._encode_frame = encode_frame sets an attribute   *)
(* of that instance.  compress(model, wav) encodes through the instance it *)
(* is given.  decompress(b) is given bytes only: it reads the model name   *)
(* from the header and decodes with an instance it creates itself.         *)
(***************************************************************************)
\* a new EncodecModel: its frame functions are the PyTorch methods
NewEncodecModel == [encode |-> "pytorch", decode |-> "pytorch"]

\* both attributes of model have been assigned
Rebound(m) == m.encode = "compiled_encoder" /\ m.decode = "compiled_decoder"

\* compress(m, wav): m.encode(...) calls m._encode_frame on every frame
compress(m) == [op |-> "compress", via |-> m.encode]

\* decompress(b): MODELS[model_name]() of the header decodes the frames
decompress(m) == [op |-> "decompress", via |-> NewEncodecModel.decode]

\* the call, with whether model was rebound when it was made
Called(c, m) == [op |-> c.op, via |-> c.via, rebound |-> Rebound(m)]

InitCodec ==
    /\ k_pc = "run"
    /\ k_model = NewEncodecModel
    /\ k_calls = <<>>
    \* the other program parts are not running
    /\ s_pc = "idle"
    /\ n_samples = 0
    /\ frame_step = 1
    /\ cov_num = 1
    /\ wav_slices = <<>>
    /\ mel_slices = <<>>
    /\ wav = <<>>
    /\ p_pc = "idle"
    /\ frames = <<>>
    /\ num_frames = 1
    /\ crop_size = 1
    /\ p_out = <<>>
    /\ p_scaled = <<>>
    /\ i_pc = "idle"
    /\ video_len = 0
    /\ video_frame = NoneFrame
    /\ pos = 0
    /\ ret = TRUE
    /\ sampling_rate = 1
    /\ top_k = 1
    /\ model = "pytorch"
    /\ invoked = "none"
    /\ tie_order = "index_ascending"
    /\ logits = <<>>
    /\ predictions = <<>>
    /\ pred_class_names = <<>>
    /\ notebook = "none"
    /\ c_pc = 0
    /\ c_err = FALSE
    /\ run = 0
    /\ lost = 0
    /\ disk = {}
    /\ writes = <<>>
    /\ bound = <<>>
    /\ r_cell = "none"
    /\ r_pc = <<>>
    /\ r_seen = <<>>
    /\ r_pending = <<>>
    /\ r_saved = <<>>
    /\ r_model = <<>>
    /\ a_pc = "idle"
    /\ a_input = 0
    /\ a_wave = <<>>
    /\ a_output = 0
    /\ d_notebook = "none"
    /\ d_pc = "idle"
    /\ d_launches = <<>>
    /\ d_req = 0
    /\ d_step = 0
    /\ d_calls = <<>>
    /\ d_failed = 0
    /\ v_notebook = "none"
    /\ v_pc = "idle"
    /\ v_available = {}
    /\ v_options = {}
    /\ v_value = "AUTO"
    /\ v_selected = FALSE
    /\ v_next = 0
    /\ v_passed = <<>>
    /\ w_pc = "idle"
    /\ w_i = 0
    /\ w_clock = 0
    /\ w_dir = {}
    /\ w_cwd = {}
    /\ w_names = <<>>
    /\ w_writes = <<>>
    /\ w_req = 0
    /\ cc_pc = "idle"
    /\ cc_size = 1
    /\ cc_frame = NoneFrame
    /\ cc_input = NoneFrame
    /\ cc_out = <<>>
    /\ n_pc = "idle"
    /\ n_size = 1
    /\ n_frame = NoneFrame
    /\ n_pixel = 0
    /\ n_array = <<>>
    /\ n_divs = 0
    /\ n_rescaled = FALSE

\* b = compress(model, wav) / compress(model, wav, use_lm=False)
CompressCell ==
    /\ k_pc = "run"
    /\ Len(k_calls) < MaxCalls
    /\ k_calls' = Append(k_calls, Called(compress(k_model), k_model))
    /\ UNCHANGED <<k_pc, k_model>>
    /\ UNCHANGED notCodec

\* out, out_sr = decompress(out_file.read_bytes())
DecompressCell ==
    /\ k_pc = "run"
    /\ Len(k_calls) < MaxCalls
    /\ k_calls' = Append(k_calls, Called(decompress(k_model), k_model))
    /\ UNCHANGED <<k_pc, k_model>>
    /\ UNCHANGED notCodec

\* model._encode_frame = encode_frame; model._decode_frame = decode_frame
RebindFrames ==
    /\ k_pc = "run"
    /\ ~Rebound(k_model)
    /\ k_model' = [encode |-> "compiled_encoder", decode |-> "compiled_decoder"]
    /\ UNCHANGED <<k_pc, k_calls>>
    /\ UNCHANGED notCodec

\* _compress(input): b = compress(model, waveform, use_lm=False);
\* out, out_sr = decompress(b)
CompressHandler ==
    /\ k_pc = "run"
    /\ Len(k_calls) + 2 <= MaxCalls
    /\ k_calls' = k_calls \o <<Called(compress(k_model), k_model),
                                Called(decompress(k_model), k_model)>>
    /\ UNCHANGED <<k_pc, k_model>>
    /\ UNCHANGED notCodec

NextCodec == CompressCell \/ DecompressCell \/ RebindFrames \/ CompressHandler

SpecCodec == InitCodec /\ [][NextCodec]_vars

(***************************************************************************)
(* center_crop called on one frame, either directly or, as process_inputs  *)
(* does, on the result of scale_short_side with the same size.             *)
(***************************************************************************)
\* mutant of CropWindow: the offsets are rounded down
CropWindow_Floor(size, f) ==
    LET y_offset == (f.h - size) \div 2
        x_offset == (f.w - size) \div 2
    IN  [y_offset |-> y_offset, x_offset |-> x_offset,
         top |-> NormIndex(y_offset, f.h),
         bottom |-> f.h - NormIndex(y_offset + size, f.h),
         left |-> NormIndex(x_offset, f.w),
         right |-> f.w - NormIndex(x_offset + size, f.w)]

\* the offsets center_crop computes and the rows and columns that
\* frame[y_offset:y_offset + size, x_offset:x_offset + size, :] leaves out
CropWindow(size, f) ==
    LET y_offset == CeilHalf(f.h - size)
        x_offset == CeilHalf(f.w - size)
    IN  [y_offset |-> y_offset, x_offset |-> x_offset,
         top |-> NormIndex(y_offset, f.h),
         bottom |-> f.h - NormIndex(y_offset + size, f.h),
         left |-> NormIndex(x_offset, f.w),
         right |-> f.w - NormIndex(x_offset + size, f.w)]

\* frames of every shape up to MaxSide + 2, so that a margin of MaxSide + 1 occurs
CropFrames == [h : 1..(MaxSide + 2), w : 1..(MaxSide + 2), dtype : {"uint8", "float32"}]

InitCrop ==
    /\ cc_pc = "start"
    /\ cc_size \in 1..MaxCrop
    /\ cc_frame \in CropFrames
    /\ cc_input = NoneFrame
    /\ cc_out = <<>>
    \* the other program parts are not running
    /\ s_pc = "idle"
    /\ n_samples = 0
    /\ frame_step = 1
    /\ cov_num = 1
    /\ wav_slices = <<>>
    /\ mel_slices = <<>>
    /\ wav = <<>>
    /\ p_pc = "idle"
    /\ frames = <<>>
    /\ num_frames = 1
    /\ crop_size = 1
    /\ p_out = <<>>
    /\ p_scaled = <<>>
    /\ i_pc = "idle"
    /\ video_len = 0
    /\ video_frame = NoneFrame
    /\ pos = 0
    /\ ret = TRUE
    /\ sampling_rate = 1
    /\ top_k = 1
    /\ model = "pytorch"
    /\ invoked = "none"
    /\ tie_order = "index_ascending"
    /\ logits = <<>>
    /\ predictions = <<>>
    /\ pred_class_names = <<>>
    /\ notebook = "none"
    /\ c_pc = 0
    /\ c_err = FALSE
    /\ run = 0
    /\ lost = 0
    /\ disk = {}
    /\ writes = <<>>
    /\ bound = <<>>
    /\ r_cell = "none"
    /\ r_pc = <<>>
    /\ r_seen = <<>>
    /\ r_pending = <<>>
    /\ r_saved = <<>>
    /\ r_model = <<>>
    /\ a_pc = "idle"
    /\ a_input = 0
    /\ a_wave = <<>>
    /\ a_output = 0
    /\ d_notebook = "none"
    /\ d_pc = "idle"
    /\ d_launches = <<>>
    /\ d_req = 0
    /\ d_step = 0
    /\ d_calls = <<>>
    /\ d_failed = 0
    /\ v_notebook = "none"
    /\ v_pc = "idle"
    /\ v_available = {}
    /\ v_options = {}
    /\ v_value = "AUTO"
    /\ v_selected = FALSE
    /\ v_next = 0
    /\ v_passed = <<>>
    /\ w_pc = "idle"
    /\ w_i = 0
    /\ w_clock = 0
    /\ w_dir = {}
    /\ w_cwd = {}
    /\ w_names = <<>>
    /\ w_writes = <<>>
    /\ w_req = 0
    /\ k_pc = "idle"
    /\ k_model = <<>>
    /\ k_calls = <<>>
    /\ n_pc = "idle"
    /\ n_size = 1
    /\ n_frame = NoneFrame
    /\ n_pixel = 0
    /\ n_array = <<>>
    /\ n_divs = 0
    /\ n_rescaled = FALSE

\* frame = scale_short_side(size=crop_size, frame=frame)
ScaleFrame ==
    /\ cc_pc = "start"
    /\ cc_input' = scale_short_side(cc_size, cc_frame)
    /\ cc_pc' = "scaled"
    /\ UNCHANGED <<cc_size, cc_frame, cc_out>>
    /\ UNCHANGED notCrop

\* center_crop(size, frame) on the frame f: the window or a failed assertion
CropResult(f) ==
    IF CropAssertsPass(cc_size, center_crop(cc_size, f))
    THEN /\ cc_out' = <<[shape |-> center_crop(cc_size, f), window |-> CropWindow(cc_size, f)]>>
         /\ cc_pc' = "cropped"
    ELSE /\ cc_out' = cc_out
         /\ cc_pc' = "assert_failed"

\* center_crop(size, frame) on the frame as it is
CropFrame ==
    /\ cc_pc = "start"
    /\ cc_input' = cc_frame
    /\ CropResult(cc_frame)
    /\ UNCHANGED <<cc_size, cc_frame>>
    /\ UNCHANGED notCrop

\* center_crop(size=crop_size, frame=frame) on the scaled frame
CropScaled ==
    /\ cc_pc = "scaled"
    /\ CropResult(cc_input)
    /\ UNCHANGED <<cc_size, cc_frame, cc_input>>
    /\ UNCHANGED notCrop

NextCrop == ScaleFrame \/ CropFrame \/ CropScaled

SpecCrop == InitCrop /\ [][NextCrop]_vars

(***************************************************************************)
(* The value of a pixel through process_inputs.  The frame has one value   *)
(* in every pixel, so that resizing and cropping leave the value as it is. *)
(* An array is [dtype, num, den]: its dtype and the pixel num / den, in    *)
(* exact arithmetic.                                                       *)
(***************************************************************************)
\* pixel values of a frame: the ends and the middle of the uint8 range
Pixels == {0, 1, 128, PixelScale}

RECURSIVE Gcd(_, _)
Gcd(a, b) == IF b = 0 THEN a ELSE Gcd(b, a % b)

\* the fraction n / d, d > 0, in lowest terms
Rat(n, d) ==
    LET g == Gcd(IF n < 0 THEN 0 - n ELSE n, d)
    IN  [num |-> n \div g, den |-> d \div g]

\* a - b and a / b for fractions, b > 0
RatSub(a, b) == Rat(a.num * b.den - b.num * a.den, a.den * b.den)

RatDiv(a, b) == Rat(a.num * b.den, a.den * b.num)

Array(dtype, v) == [dtype |-> dtype, num |-> v.num, den |-> v.den]

\* a / 255
DivScale(a) == Array("float32", RatDiv(a, Rat(PixelScale, 1)))

\* mutant of normalize: the division by 255 does not depend on the dtype
normalize_AlwaysDivides(a) ==
    [array |-> Array("float32", RatDiv(RatSub(DivScale(a), MEAN), STD)),
     divided |-> TRUE]

\* normalize(array, mean, std): array / 255.0 for a uint8 array, then
\* (array - mean) / std; divided tells that the uint8 branch was taken
normalize(a) ==
    [array |-> Array("float32",
                     RatDiv(RatSub(IF a.dtype = "uint8" THEN DivScale(a) ELSE a, MEAN), STD)),
     divided |-> a.dtype = "uint8"]

InitNorm ==
    /\ n_pc = "scale"
    /\ n_size \in 1..MaxCrop
    /\ n_frame \in FrameSet
    /\ n_pixel \in Pixels
    /\ n_array = <<>>
    /\ n_divs = 0
    /\ n_rescaled = FALSE
    \* the other program parts are not running
    /\ s_pc = "idle"
    /\ n_samples = 0
    /\ frame_step = 1
    /\ cov_num = 1
    /\ wav_slices = <<>>
    /\ mel_slices = <<>>
    /\ wav = <<>>
    /\ p_pc = "idle"
    /\ frames = <<>>
    /\ num_frames = 1
    /\ crop_size = 1
    /\ p_out = <<>>
    /\ p_scaled = <<>>
    /\ i_pc = "idle"
    /\ video_len = 0
    /\ video_frame = NoneFrame
    /\ pos = 0
    /\ ret = TRUE
    /\ sampling_rate = 1
    /\ top_k = 1
    /\ model = "pytorch"
    /\ invoked = "none"
    /\ tie_order = "index_ascending"
    /\ logits = <<>>
    /\ predictions = <<>>
    /\ pred_class_names = <<>>
    /\ notebook = "none"
    /\ c_pc = 0
    /\ c_err = FALSE
    /\ run = 0
    /\ lost = 0
    /\ disk = {}
    /\ writes = <<>>
    /\ bound = <<>>
    /\ r_cell = "none"
    /\ r_pc = <<>>
    /\ r_seen = <<>>
    /\ r_pending = <<>>
    /\ r_saved = <<>>
    /\ r_model = <<>>
    /\ a_pc = "idle"
    /\ a_input = 0
    /\ a_wave = <<>>
    /\ a_output = 0
    /\ d_notebook = "none"
    /\ d_pc = "idle"
    /\ d_launches = <<>>
    /\ d_req = 0
    /\ d_step = 0
    /\ d_calls = <<>>
    /\ d_failed = 0
    /\ v_notebook = "none"
    /\ v_pc = "idle"
    /\ v_available = {}
    /\ v_options = {}
    /\ v_value = "AUTO"
    /\ v_selected = FALSE
    /\ v_next = 0
    /\ v_passed = <<>>
    /\ w_pc = "idle"
    /\ w_i = 0
    /\ w_clock = 0
    /\ w_dir = {}
    /\ w_cwd = {}
    /\ w_names = <<>>
    /\ w_writes = <<>>
    /\ w_req = 0
    /\ k_pc = "idle"
    /\ k_model = <<>>
    /\ k_calls = <<>>
    /\ cc_pc = "idle"
    /\ cc_size = 1
    /\ cc_frame = NoneFrame
    /\ cc_input = NoneFrame
    /\ cc_out = <<>>

\* inputs = [scale_short_side(size=crop_size, frame=frame) for frame in frames]
NormScale ==
    /\ n_pc = "scale"
    /\ LET r == scale_short_side(n_size, n_frame)
       IN  /\ n_array' = Array(r.dtype, Rat(n_pixel, 1))
           /\ n_rescaled' = (r.h # n_frame.h \/ r.w # n_frame.w)
    /\ n_pc' = "crop"
    /\ UNCHANGED <<n_size, n_frame, n_pixel, n_divs>>
    /\ UNCHANGED notNorm

\* inputs = [center_crop(size=crop_size, frame=frame) for frame in inputs]
NormCrop ==
    /\ n_pc = "crop"
    /\ n_pc' = "to_float"
    /\ UNCHANGED <<n_size, n_frame, n_pixel, n_array, n_divs, n_rescaled>>
    /\ UNCHANGED notNorm

\* inputs = np.array(inputs).astype(np.float32) / 255
NormToFloat ==
    /\ n_pc = "to_float"
    /\ n_array' = DivScale(n_array)
    /\ n_divs' = n_divs + 1
    /\ n_pc' = "normalize"
    /\ UNCHANGED <<n_size, n_frame, n_pixel, n_rescaled>>
    /\ UNCHANGED notNorm

\* inputs = normalize(array=inputs, mean=mean, std=std)
NormNormalize ==
    /\ n_pc = "normalize"
    /\ n_array' = normalize(n_array).array
    /\ n_divs' = n_divs + (IF normalize(n_array).divided THEN 1 ELSE 0)
    /\ n_pc' = "done"
    /\ UNCHANGED <<n_size, n_frame, n_pixel, n_rescaled>>
    /\ UNCHANGED notNorm

NextNorm == NormScale \/ NormCrop \/ NormToFloat \/ NormNormalize

SpecNorm == InitNorm /\ [][NextNorm]_vars

(***************************************************************************)
(* Properties of compute_partial_slices / embed_utterance.                 *)
(***************************************************************************)
\* one partial utterance, in samples
Window == partials_n_frames * samples_per_frame

Sliced == s_pc \in {"sliced", "padded"}

\* the starts range(0, steps, frame_step) enumerates, written as a set
CandidateStarts ==
    {i \in 0..(Steps(n_samples, frame_step) - 1) : i % frame_step = 0}

NCandidates == Cardinality(CandidateStarts)

\* start, in samples, of the last candidate slice
LastCandidateStart == (NCandidates - 1) * frame_step * samples_per_frame

\* the last candidate reaches min_coverage
LastCandidateCovered ==
    (n_samples - LastCandidateStart) * CovDen >= cov_num * Window

\* sample index i lies inside a returned wav slice
InSomeSlice(i) ==
    \E k \in 1..Len(wav_slices) : wav_slices[k].start <= i /\ i < wav_slices[k].stop

\* C2: compute_partial_slices always returns at least one wav slice and at
\* least one mel slice, for every input that passes its assertions.
C2_AtLeastOneSlice ==
    Sliced => (Len(wav_slices) >= 1 /\ Len(mel_slices) >= 1)

\* a waveform with fewer frames than one partial utterance, below min_coverage
C2_Witness ==
    /\ s_pc = "sliced"
    /\ NFrames(n_samples) < partials_n_frames
    /\ n_samples * CovDen < cov_num * Window
    /\ Len(wav_slices) = 1

\* C3: with more than one candidate slice, the last candidate is kept iff
\* its coverage is at least min_coverage; otherwise exactly that one slice is
\* removed from both lists, and no other slice is ever removed.
C3_LastKeptIffCovered ==
    (Sliced /\ NCandidates > 1) =>
        /\ Len(wav_slices) = (IF LastCandidateCovered THEN NCandidates ELSE NCandidates - 1)
        /\ Len(mel_slices) = Len(wav_slices)
        /\ \A k \in 1..Len(wav_slices) :
              /\ mel_slices[k].start = (k - 1) * frame_step
              /\ wav_slices[k].start = (k - 1) * frame_step * samples_per_frame

\* the last candidate has exactly the minimum coverage and is kept
C3_Witness ==
    /\ s_pc = "sliced"
    /\ NCandidates > 1
    /\ (n_samples - LastCandidateStart) * CovDen = cov_num * Window
    /\ Len(wav_slices) = NCandidates

\* C4 as stated: a waveform shorter than one window has its single partial
\* utterance zero-padded when the coverage reaches 0.75 and dropped otherwise.
C4_ShortDroppedBelowThreshold ==
    (s_pc = "padded" /\ n_samples < Window /\ cov_num * 4 = 3 * CovDen) =>
        IF n_samples * 4 >= 3 * Window
        THEN InSomeSlice(0) /\ Len(wav) >= Window
        ELSE ~InSomeSlice(0)

\* C4 amended: for a waveform shorter than one window the first partial
\* utterance [0, Window) is always returned and zero-padded, whatever the
\* coverage; min_coverage decides only whether a second candidate is kept.
C4_ShortAlwaysPadded ==
    (s_pc = "padded" /\ n_samples < Window) =>
        /\ wav_slices[1] = [start |-> 0, stop |-> Window]
        /\ Len(wav) >= Window
        /\ \A i \in 1..Len(wav) : wav[i] = (IF i <= n_samples THEN i ELSE 0)
        /\ Len(wav_slices) <= 2
        /\ Len(wav_slices) = 2 <=> (NCandidates = 2 /\ LastCandidateCovered)

\* a short waveform below the 0.75 threshold, kept and padded all the same
C4_Witness ==
    /\ s_pc = "padded"
    /\ n_samples < Window
    /\ cov_num * 4 = 3 * CovDen
    /\ n_samples * 4 < 3 * Window
    /\ Len(wav_slices) = 1
    /\ Len(wav) = Window

\* C26: in embed_utterance, after the padding step the waveform is at least
\* as long as the stop of the last wav slice, so every returned wav slice,
\* and every mel slice taken in samples, lies inside the padded waveform;
\* padding only appends zeros: the original samples keep their positions and
\* values, and a waveform longer than the last stop is not truncated.
C26_PaddedCoversSlices ==
    s_pc = "padded" =>
        LET last == wav_slices[Len(wav_slices)]
        IN  /\ Len(wav) >= last.stop
            /\ \A k \in 1..Len(wav_slices) :
                  /\ 0 <= wav_slices[k].start
                  /\ wav_slices[k].start < wav_slices[k].stop
                  /\ wav_slices[k].stop <= Len(wav)
            /\ \A k \in 1..Len(mel_slices) :
                  mel_slices[k].stop * samples_per_frame <= Len(wav)
            /\ Len(wav) = Max(n_samples, last.stop)
            /\ \A i \in 1..Len(wav) : wav[i] = (IF i <= n_samples THEN i ELSE 0)

\* the last candidate was dropped, the waveform is longer than the stop of
\* the last returned slice and keeps all its samples
C26_Witness ==
    /\ s_pc = "padded"
    /\ Len(wav_slices) >= 2
    /\ n_samples > wav_slices[Len(wav_slices)].stop
    /\ Len(wav) = n_samples
    /\ wav[n_samples] = n_samples

\* the last returned wav slice
LastSlice == wav_slices[Len(wav_slices)]

\* C27 as stated: for every accepted input (min_coverage in (0, 1],
\* frame_step in 1..partials_n_frames, n_samples >= 0), if more than one
\* slice is returned the last returned slice has coverage
\* (n_samples - start) / (stop - start) >= min_coverage.
C27_LastSliceCovered ==
    (Sliced /\ Len(wav_slices) > 1) => ~CoverageBelow(n_samples, LastSlice, cov_num)

\* C27 amended: at most one trailing slice is dropped.  If more than one
\* slice is returned, the last returned slice has coverage >= min_coverage
\* when nothing was dropped, and coverage >= 1 - 1 / partials_n_frames when
\* the last candidate was dropped; so its coverage is >= min_coverage
\* whenever min_coverage <= 1 - 1 / partials_n_frames, and can be below
\* min_coverage otherwise.
C27_LastSliceNearlyCovered ==
    (Sliced /\ Len(wav_slices) > 1) =>
        /\ Len(wav_slices) \in {NCandidates - 1, NCandidates}
        /\ Len(wav_slices) = NCandidates => ~CoverageBelow(n_samples, LastSlice, cov_num)
        /\ Len(wav_slices) = NCandidates - 1 =>
              (n_samples - LastSlice.start) * partials_n_frames
                  >= (partials_n_frames - 1) * (LastSlice.stop - LastSlice.start)
        /\ cov_num * partials_n_frames <= (partials_n_frames - 1) * CovDen =>
              ~CoverageBelow(n_samples, LastSlice, cov_num)

\* min_coverage = 1: the last candidate was dropped and the slice before it,
\* now the last one, reaches past the end of the waveform too
C27_Witness ==
    /\ Sliced
    /\ cov_num = CovDen
    /\ Len(wav_slices) > 1
    /\ Len(wav_slices) = NCandidates - 1
    /\ LastSlice.stop > n_samples
    /\ CoverageBelow(n_samples, LastSlice, cov_num)

C6_SlicesCorrespond ==
    Sliced =>
        /\ Len(wav_slices) = Len(mel_slices)
        /\ \A k \in 1..Len(mel_slices) :
              /\ mel_slices[k].start = (k - 1) * frame_step
              /\ mel_slices[k].stop = (k - 1) * frame_step + partials_n_frames
        /\ \A k \in 1..Len(wav_slices) :
              /\ k <= Len(mel_slices)
              /\ wav_slices[k].start = mel_slices[k].start * samples_per_frame
              /\ wav_slices[k].stop = mel_slices[k].stop * samples_per_frame

\* several slices are returned after the last candidate was dropped
C6_Witness ==
    /\ s_pc = "sliced"
    /\ Len(mel_slices) >= 2
    /\ Len(mel_slices) = NCandidates - 1

(***************************************************************************)
(* Properties of process_inputs.                                           *)
(***************************************************************************)
\* dummy_input = [torch.randn((1, 3, 8, 256, 256)), torch.randn([1, 3, 32, 256, 256])]
DummySlowShape == <<1, 3, 8, 256, 256>>

DummyFastShape == <<1, 3, 32, 256, 256>>

\* C1: for every non-empty list of frames, num_frames >= 1 and crop_size >= 1
\* process_inputs returns exactly [slow, fast] with the shapes
\* (1, C, num_frames // 4, crop_size, crop_size) and
\* (1, C, num_frames, crop_size, crop_size); with the notebook parameters
\* these are the shapes the model was exported with.
C1_ExactShapes ==
    /\ p_pc # "assert_failed"
    /\ p_pc = "done" =>
        /\ Len(p_out) = 2
        /\ Shape(p_out[1]) = <<1, Channels, num_frames \div 4, crop_size, crop_size>>
        /\ Shape(p_out[2]) = <<1, Channels, num_frames, crop_size, crop_size>>
        /\ (num_frames = NUM_FRAMES /\ crop_size = CROP_SIZE) =>
              (Shape(p_out[1]) = DummySlowShape /\ Shape(p_out[2]) = DummyFastShape)

\* the notebook's parameters on frames that had to be rescaled
C1_Witness ==
    /\ p_pc = "done"
    /\ num_frames = NUM_FRAMES
    /\ crop_size = CROP_SIZE
    /\ frames[1].h # CROP_SIZE /\ frames[1].w # CROP_SIZE
    /\ Len(p_out[1].idx) = 8

\* the k-th index process_inputs sampled, k = 0..num_frames - 1: p_out[2]
\* holds the 1-based positions of the sampled frames in the input list
SampledIndex(k) == p_out[2].idx[k + 1] - 1

\* floor(k * (T - 1) / (num_frames - 1))
ExactPick(k) == (k * (Len(frames) - 1)) \div (num_frames - 1)

\* C13 as stated: for T >= 1 frames and num_frames >= 2 exactly num_frames
\* indices are selected, the k-th being floor(k * (T - 1) / (num_frames - 1));
\* every index is in [0, T - 1], the sequence is non-decreasing, the first
\* pick is frame 0 and the last pick is frame T - 1.
C13_ExactFloorPicks ==
    (p_pc = "done" /\ num_frames >= 2) =>
        /\ Len(p_out[2].idx) = num_frames
        /\ \A k \in 0..(num_frames - 1) :
              /\ SampledIndex(k) = ExactPick(k)
              /\ 0 <= SampledIndex(k) /\ SampledIndex(k) <= Len(frames) - 1
        /\ \A k \in 0..(num_frames - 2) : SampledIndex(k) <= SampledIndex(k + 1)
        /\ SampledIndex(0) = 0
        /\ SampledIndex(num_frames - 1) = Len(frames) - 1

\* C13 amended: exactly num_frames indices are selected, the k-th being the
\* integer part of the float product k * ((T - 1) / (num_frames - 1)), which
\* is floor(k * (T - 1) / (num_frames - 1)) or one less; every index is in
\* [0, T - 1], the sequence is non-decreasing, the first pick is frame 0 and
\* the last pick is frame T - 1.
C13_FloatFloorPicks ==
    (p_pc = "done" /\ num_frames >= 2) =>
        /\ Len(p_out[2].idx) = num_frames
        /\ \A k \in 0..(num_frames - 1) :
              /\ SampledIndex(k) \in {ExactPick(k), ExactPick(k) - 1}
              /\ 0 <= SampledIndex(k) /\ SampledIndex(k) <= Len(frames) - 1
        /\ \A k \in 0..(num_frames - 2) : SampledIndex(k) <= SampledIndex(k + 1)
        /\ SampledIndex(0) = 0
        /\ SampledIndex(num_frames - 1) = Len(frames) - 1

\* 31 frames sampled to 23: 11 * (30 / 22) is just below 15 and frame 14 is picked
C13_Witness ==
    /\ p_pc = "done"
    /\ Len(frames) = 31
    /\ num_frames = 23
    /\ ExactPick(11) = 15
    /\ SampledIndex(11) = 14

\* the two pathways have the same frame size, channels and dtype
SameSpatial(a, b) == a.h = b.h /\ a.w = b.w /\ a.c = b.c /\ a.dtype = b.dtype

\* C12 as stated: for a fast pathway of T frames the slow pathway has
\* T // alpha frames, its j-th frame being the fast pathway's frame j * alpha,
\* with the spatial content of the picked frames unchanged.
C12_StrideAlpha ==
    p_pc = "done" =>
        LET slow == p_out[1]
            fast == p_out[2]
        IN  /\ Len(slow.idx) = Len(fast.idx) \div alpha
            /\ \A j \in 1..Len(slow.idx) : slow.idx[j] = fast.idx[(j - 1) * alpha + 1]
            /\ SameSpatial(slow, fast)

\* C12 amended: the slow pathway has T // alpha frames picked by linspace
\* over the whole fast pathway: the first pick is frame 0, and with two or
\* more picks the last pick is frame T - 1 and consecutive picks are at
\* least alpha apart (alpha or more, not a constant stride); the spatial
\* content of the picked frames is unchanged.
C12_LinspacePicks ==
    p_pc = "done" =>
        LET slow == p_out[1]
            fast == p_out[2]
            T == Len(fast.idx)
            n == T \div alpha
            picks == Linspace(T - 1, n)
        IN  /\ Len(slow.idx) = n
            /\ \A j \in 1..n : slow.idx[j] = fast.idx[picks[j] + 1]
            /\ n >= 1 => picks[1] = 0
            /\ n >= 2 => picks[n] = T - 1
            /\ \A j \in 1..(n - 1) : picks[j + 1] - picks[j] >= alpha
            /\ SameSpatial(slow, fast)

\* the notebook's 32 fast frames: the slow pathway holds the fast frames
\* 0, 4, 8, 13, 17, 22, 26, 31
C12_Witness ==
    /\ p_pc = "done"
    /\ Len(p_out[2].idx) = NUM_FRAMES
    /\ Len(p_out[1].idx) = 8
    /\ p_out[1].idx[3] = p_out[2].idx[9]
    /\ p_out[1].idx[4] = p_out[2].idx[14]
    /\ p_out[1].idx[4] # p_out[2].idx[13]
    /\ p_out[1].idx[8] = p_out[2].idx[32]

(***************************************************************************)
(* Properties of run_inference.                                            *)
(***************************************************************************)
\* C10: run_inference returns the top top_k labels: for every top_k in
\* 1..NumClasses the returned list has exactly top_k elements.
C10_ReturnsTopKLabels ==
    i_pc = "done" => Len(pred_class_names) = top_k

\* the class a returned label stands for
ClassOf(l) == CHOOSE c \in Classes : id_to_label_mapping(c) = l

\* the classes of the returned labels, in order
ReturnedClasses == [j \in 1..Len(pred_class_names) |-> ClassOf(pred_class_names[j])]

\* the ranking np.argsort gives on the predictions the model returned
RawRanking == argsort_desc([c \in Classes |-> Frac(logits[c], 1)], NumClasses, tie_order)

\* C11: the returned labels are those of the highest-scoring classes in
\* non-increasing score order: every returned class scores at least as high
\* as every class not returned, consecutive returned classes have
\* non-increasing scores, each label is id_to_label_mapping of its class, and
\* the ranking after softmax is the ranking of the raw scores.
C11_HighestScoresInOrder ==
    i_pc = "done" =>
        LET r == ReturnedClasses
            R == {r[j] : j \in 1..Len(r)}
        IN  /\ \A c \in R : \A d \in Classes \ R : logits[c] >= logits[d]
            /\ \A j \in 1..(Len(r) - 1) : logits[r[j]] >= logits[r[j + 1]]
            /\ \A j \in 1..Len(r) : pred_class_names[j] = id_to_label_mapping(r[j])
            /\ r = TopSlice(RawRanking, top_k)

\* the video has fewer readable frames than num_frames * sampling_rate
TooShort == video_len # Endless /\ video_len < seq_length

\* C14: when the video is too short (fewer than num_frames * sampling_rate
\* readable frames, zero included) run_inference fails with an error and
\* returns no labels: the failed read leaves None in the list of frames,
\* process_inputs raises on it, and the model is never invoked on a
\* shortened, repeated or padded clip.
C14_ShortVideoFails ==
    (i_pc # "idle" /\ TooShort) =>
        /\ i_pc \in {"reading", "preprocess", "error"}
        /\ invoked = "none"
        /\ pred_class_names = <<>>
        /\ i_pc \in {"preprocess", "error"} =>
              /\ Len(frames) = video_len + 1
              /\ frames[Len(frames)] = NoneFrame
              /\ \A k \in 1..video_len : frames[k] = video_frame
        /\ i_pc = "error" => p_out = <<>>

\* a video with some frames, but too few, ended in the error of process_inputs
C14_Witness ==
    /\ TooShort
    /\ video_len >= 1
    /\ i_pc = "error"
    /\ pos = video_len
    /\ ~ret

\* what holds of the list of frames during and after the loop
ReadLoopInv ==
    /\ Len(frames) <= seq_length
    /\ pos <= Len(frames)
    /\ ret => (pos = Len(frames) /\ \A k \in 1..Len(frames) : frames[k] = video_frame)
    /\ ~ret =>
          /\ Len(frames) = pos + 1
          /\ frames[Len(frames)] = NoneFrame
          /\ \A k \in 1..pos : frames[k] = video_frame
          /\ video_len # Endless /\ pos = video_len
    /\ (i_pc = "preprocess" /\ ~TooShort) =>
          /\ ret
          /\ Len(frames) = seq_length
          /\ pos = seq_length
          /\ \A k \in 1..seq_length : frames[k] = video_frame /\ frames[k] # NoneFrame

\* one iteration makes one read and appends its result after the frames
\* collected so far; the loop is left only when its condition is false
ReadLoopStep ==
    /\ (i_pc = "reading" /\ i_pc' = "reading") =>
          /\ ret /\ Len(frames) < seq_length
          /\ Len(frames') = Len(frames) + 1
          /\ SubSeq(frames', 1, Len(frames)) = frames
          /\ pos' \in {pos, pos + 1}
          /\ pos' = pos + 1 <=> frames'[Len(frames')] = video_frame
          /\ pos' = pos <=> ~ret'
    /\ (i_pc = "reading" /\ i_pc' # "reading") =>
          /\ ~ret \/ Len(frames) = seq_length
          /\ frames' = frames

\* C29: the frame-collection loop of run_inference terminates for every
\* video source, one that never runs out of frames included: it performs at
\* most num_frames * sampling_rate reads and stops at the first failed read;
\* when the video has at least num_frames * sampling_rate frames, the list is
\* exactly the first num_frames * sampling_rate frames in read order, each
\* of them a successfully read frame.
C29_ReadLoopTerminates ==
    /\ []ReadLoopInv
    /\ [][ReadLoopStep]_vars
    /\ <>(i_pc # "reading")

\* a source that never runs out of frames: the loop ended after
\* num_frames * sampling_rate successful reads
C29_Witness ==
    /\ video_len = Endless
    /\ i_pc = "preprocess"
    /\ seq_length = MaxRate * MaxRate
    /\ Len(frames) = seq_length
    /\ pos = seq_length
    /\ ret

\* C15: the PyTorch runner and the OpenVINO runner are substitutable: the
\* inputs handed to the model are a function of the frames, num_frames and
\* crop_size alone, the runner enters only the invocation, and the returned
\* labels are a function of the predictions the runner returned, so equal
\* predictions give equal label lists with either runner.
C15_RunnersSubstitutable ==
    /\ i_pc \in {"invoke", "postprocess", "done"} =>
          p_out = process_inputs(frames, num_frames, crop_size)
    /\ i_pc \in {"reading", "preprocess", "invoke", "error"} => invoked = "none"
    /\ i_pc \in {"postprocess", "done"} =>
          /\ invoked = model
          /\ predictions = softmax(logits)
    /\ i_pc = "done" =>
          pred_class_names =
              Labels(TopSlice(argsort_desc(predictions, NumClasses, tie_order), top_k))

\* the OpenVINO runner returned predictions with equal values among the
\* classes, and the labels came back in the order the build gives to ties
C15_Witness ==
    /\ i_pc = "done"
    /\ model = "ov_compiled"
    /\ invoked = "ov_compiled"
    /\ tie_order = "index_ascending"
    /\ logits[0] = 1 /\ logits[1] = 1 /\ logits[2] = 0
    /\ pred_class_names[1] = id_to_label_mapping(0)
    /\ pred_class_names[2] = id_to_label_mapping(1)

(***************************************************************************)
(* Properties of preprocess / postprocess of the EnCodec demo.             *)
(***************************************************************************)
\* the float sample x is >= 1.0
AtLeastOne(x) == x.m >= Pow2(0 - x.e)

\* the float sample x is < -1.0
BelowMinusOne(x) == x.m < 0 - Pow2(0 - x.e)

\* C16: postprocess maps every decoded sample to an int16 value by
\* saturation: a sample >= 1.0 yields 32767, a sample < -1.0 yields -32768,
\* and the result never has the opposite sign of the sample.
C16_Saturates ==
    a_pc = "output" =>
        /\ a_output \in Int16
        /\ AtLeastOne(a_wave) => a_output = Int16Max
        /\ BelowMinusOne(a_wave) => a_output = Int16Min
        /\ a_wave.m > 0 => a_output >= 0
        /\ a_wave.m < 0 => a_output <= 0

\* C17: for every int16 sample s, with the sample rate and the channels of
\* the model, postprocess(preprocess(s)) = s: the division by 2**15, the
\* multiplication by 2**15 and the cast to int16 reconstruct the input.
C17_RoundTrip ==
    (a_pc = "output" /\ a_input # NoSample) =>
        /\ a_output = a_input
        /\ a_wave = [m |-> a_input, e |-> 0 - ScaleExp]

\* the most negative int16 sample went through preprocess and postprocess
C17_Witness ==
    /\ a_pc = "output"
    /\ a_input = Int16Min
    /\ a_wave.e = 0 - ScaleExp
    /\ a_output = Int16Min

(***************************************************************************)
(* Properties of the demo cells.                                           *)
(***************************************************************************)
\* no call of the handler was invoked twice for the request being handled
StepsOnce == \A j \in 1..Len(d_calls) : d_calls[j] <= 1

\* C18 as stated: no operation is re-attempted after it fails, with the
\* same or with changed arguments, the launch of the demo UI included: a
\* launch call never follows a launch call that raised, and no step of the
\* handler is invoked twice for one request.
C18_NoRetries ==
    /\ \A j \in 2..Len(d_launches) : d_launches[j - 1].outcome = "returned"
    /\ StepsOnce

\* C18 amended: the only re-attempt is the launch of the EnCodec demo: when
\* demo.launch(debug=True) raises an Exception, launch is called once more
\* with share=True, and an error of that second call is surfaced.  Every
\* other failure is surfaced at once: another BaseException of the first
\* launch, any failure of the FreeVC launch, and a failing step of a
\* handler, which ends its request without being invoked again.
C18_OnlyLaunchRetried ==
    /\ StepsOnce
    /\ d_failed <= d_req
    /\ Len(d_launches) <= 2
    /\ Len(d_launches) = 2 =>
          /\ LaunchGuarded(d_notebook)
          /\ d_launches[1] = [share |-> FALSE, outcome |-> "Exception"]
          /\ d_launches[2].share
          /\ d_launches[2].outcome # "returned" => d_pc = "raised"
    /\ Len(d_launches) = 1 =>
          /\ ~d_launches[1].share
          /\ d_launches[1].outcome = "BaseException" => d_pc = "raised"
          /\ (d_launches[1].outcome = "Exception" /\ ~LaunchGuarded(d_notebook)) =>
                d_pc = "raised"
    /\ d_pc = "raised" =>
          /\ d_req = 0
          /\ d_launches[Len(d_launches)].outcome # "returned"

\* the first launch of the EnCodec demo raised, the second one with
\* share=True returned, and a request that failed was not repeated
C18_Witness ==
    /\ d_notebook = "encodec"
    /\ Len(d_launches) = 2
    /\ d_launches[2] = [share |-> TRUE, outcome |-> "returned"]
    /\ d_pc = "serving"
    /\ d_req = 1
    /\ d_failed = 1

(***************************************************************************)
(* Properties of the device selection.                                     *)
(***************************************************************************)
\* C19 as stated: when the requested device is not among the available ones
\* at the compile_model call, AUTO is passed instead (and the call fails only
\* without AUTO), so the name passed is always a member of
\* core.available_devices or AUTO; it is AUTO when the user selects nothing.
C19_FallsBackToAuto ==
    /\ \A j \in 1..Len(v_passed) :
          /\ v_passed[j].name \in v_passed[j].available \cup {"AUTO"}
          /\ v_passed[j].requested \notin v_passed[j].available => v_passed[j].name = "AUTO"
    /\ ~v_selected => \A j \in 1..Len(v_passed) : v_passed[j].name = "AUTO"

\* C19 amended: compile_model is given device.value as it is, one of the
\* options the dropdown was created with (the devices available then, or
\* AUTO), and AUTO when the user selects nothing.  There is no fallback: when
\* the selected device is not available at the call, compile_model raises
\* and the pipeline fails at that call.
C19_PassesSelectedValue ==
    /\ \A j \in 1..Len(v_passed) :
          /\ v_passed[j].name = v_passed[j].requested
          /\ v_passed[j].name \in v_options
          /\ v_passed[j].raised <=> CompileRaises(v_passed[j].requested, v_passed[j].available)
          /\ v_passed[j].raised => (j = Len(v_passed) /\ v_pc = "failed")
    /\ ~v_selected => \A j \in 1..Len(v_passed) : v_passed[j].name = "AUTO"
    /\ v_pc # "widget" => "AUTO" \in v_options /\ v_value \in v_options
    /\ v_pc = "failed" => v_passed[Len(v_passed)].raised

\* the user selected GPU, the GPU went away, and compile_model was given GPU
\* and raised, although AUTO could have used the CPU
C19_Witness ==
    /\ v_pc = "failed"
    /\ v_selected
    /\ v_passed[Len(v_passed)].name = "GPU"
    /\ v_passed[Len(v_passed)].available = {"CPU"}
    /\ v_passed[Len(v_passed)].raised

(***************************************************************************)
(* Properties of scale_short_side.                                         *)
(***************************************************************************)
ShortSide(f) == Min(f.h, f.w)

LongSide(f) == Max(f.h, f.w)

\* process_inputs has scaled its frames
FramesScaled == p_pc \in {"done", "assert_failed"}

\* C20 as stated: for every frame with h >= 1 and w >= 1 the result of
\* scale_short_side has its shorter side equal to size and its longer side
\* equal to floor(longer * size / shorter), hence >= size; a frame whose
\* shorter side already equals size keeps its dimensions.
C20_LongSideExactFloor ==
    FramesScaled =>
        \A k \in 1..Len(frames) :
            /\ ShortSide(p_scaled[k]) = crop_size
            /\ LongSide(p_scaled[k]) = (LongSide(frames[k]) * crop_size) \div ShortSide(frames[k])
            /\ LongSide(p_scaled[k]) >= crop_size
            /\ ShortSide(frames[k]) = crop_size =>
                  (p_scaled[k].h = frames[k].h /\ p_scaled[k].w = frames[k].w)

\* C20 amended: the shorter side of the result is exactly size and stays the
\* side it was; the longer side is floor((float(longer) / shorter) * size)
\* computed in double precision, which is >= size and is
\* floor(longer * size / shorter) or one less than it; a frame whose shorter
\* side already equals size keeps its dimensions.
C20_LongSideFloatFloor ==
    FramesScaled =>
        \A k \in 1..Len(frames) :
            LET f == frames[k]
                r == p_scaled[k]
                q == (LongSide(f) * crop_size) \div ShortSide(f)
            IN  /\ ShortSide(r) = crop_size
                /\ f.w < f.h => r.w = crop_size
                /\ f.h < f.w => r.h = crop_size
                /\ LongSide(r) = FlFloorMulDiv(LongSide(f), ShortSide(f), crop_size)
                /\ LongSide(r) \in {q - 1, q}
                /\ LongSide(r) >= crop_size
                /\ ShortSide(f) = crop_size => (r.h = f.h /\ r.w = f.w)

\* a 30 x 22 frame scaled to size 11 is 14 x 11, where 30 * 11 / 22 = 15
C20_Witness ==
    /\ p_pc = "done"
    /\ crop_size = RoundedSize
    /\ frames[1].h = 30 /\ frames[1].w = 22
    /\ p_scaled[1].h = 14 /\ p_scaled[1].w = RoundedSize

\* C21: scale_short_side returns a float array for every input: whatever the
\* dtype and dimensions of the frame, a uint8 frame whose shorter side
\* already equals size included, the returned array has dtype float32.
C21_ReturnsFloat32 ==
    FramesScaled => \A k \in 1..Len(frames) : p_scaled[k].dtype = "float32"

(***************************************************************************)
(* Properties of the FreeVC result files.                                  *)
(***************************************************************************)
\* the files of outputs/freevc written by a loop
FilesOf(loop) == {e \in w_dir : e.loop = loop}

\* the loop over the compiled models has ended
LoopsDone == w_pc = "demo"

\* C23: after the inference loop over the N pairs, outputs/freevc holds one
\* distinct result file per pair: no iteration overwrote the file of an
\* earlier iteration or of the native loop, and the N names appended to
\* result_wav_names are pairwise different, whenever the iterations ran.
C23_OneFilePerPair ==
    LoopsDone =>
        /\ \A pair \in Pairs : \E e \in FilesOf("openvino") : e.pair = pair
        /\ \A pair \in Pairs : \E e \in FilesOf("native") : e.pair = pair
        /\ Len(w_names) = NumPairs
        /\ \A j, k \in 1..Len(w_names) : j # k => w_names[j] # w_names[k]

(***************************************************************************)
(* Properties of the rebinding of the EnCodec frame functions.             *)
(***************************************************************************)
\* C24: after model._encode_frame and model._decode_frame are rebound, every
\* later compress call encodes its frames through compiled_encoder and every
\* later decompress call decodes its frames through compiled_decoder; before
\* the rebinding both use the PyTorch frame functions.
C24_BothRunOnOpenVINO ==
    \A j \in 1..Len(k_calls) :
        LET c == k_calls[j]
        IN  IF c.rebound
            THEN /\ c.op = "compress" => c.via = "compiled_encoder"
                 /\ c.op = "decompress" => c.via = "compiled_decoder"
            ELSE c.via = "pytorch"

(***************************************************************************)
(* Properties of center_crop.                                              *)
(***************************************************************************)
\* center_crop was the first call: its input is the frame as it was given
CroppedDirectly == cc_input = cc_frame

\* the input of center_crop is what scale_short_side returns for the frame
OnScaled == cc_input = scale_short_side(cc_size, cc_frame)

\* |a - b| <= 1
DifferByAtMostOne(a, b) == a - b \in {0 - 1, 0, 1}

\* C25: center_crop(size, frame) either returns a window of exactly
\* size x size pixels taken at the offsets ceil((h - size) / 2) and
\* ceil((w - size) / 2), whose leading and trailing margins differ by at most
\* one pixel in each dimension, or fails one of its two assertions; it fails
\* exactly when h < size or w < size, and never on the output of
\* scale_short_side called with the same size.
C25_CenterCrop ==
    /\ cc_pc \in {"cropped", "assert_failed"} =>
          (cc_pc = "assert_failed" <=> (cc_input.h < cc_size \/ cc_input.w < cc_size))
    /\ cc_pc = "cropped" =>
          LET f == cc_input
              c == cc_out[1]
          IN  /\ c.shape.h = cc_size /\ c.shape.w = cc_size
              /\ c.shape.dtype = f.dtype
              /\ 2 * c.window.y_offset \in {f.h - cc_size, f.h - cc_size + 1}
              /\ 2 * c.window.x_offset \in {f.w - cc_size, f.w - cc_size + 1}
              /\ c.window.top = c.window.y_offset
              /\ c.window.left = c.window.x_offset
              /\ c.window.top + cc_size + c.window.bottom = f.h
              /\ c.window.left + cc_size + c.window.right = f.w
              /\ DifferByAtMostOne(c.window.top, c.window.bottom)
              /\ DifferByAtMostOne(c.window.left, c.window.right)
    /\ cc_pc = "assert_failed" => ~OnScaled

\* a 3 x 5 frame cropped to size 2: one row is left out above and none below,
\* two columns on the left and one on the right
C25_Witness ==
    /\ cc_pc = "cropped"
    /\ cc_size = 2
    /\ cc_frame.h = 3 /\ cc_frame.w = MaxSide + 1
    /\ CroppedDirectly
    /\ cc_out[1].window.top = 1 /\ cc_out[1].window.bottom = 0
    /\ cc_out[1].window.left = 2 /\ cc_out[1].window.right = 1

(***************************************************************************)
(* Properties of the normalization in process_inputs.                      *)
(***************************************************************************)
\* C28: in process_inputs the division of the pixel values by 255 is applied
\* exactly once for every input: whether the frames are uint8 or float and
\* whether scale_short_side rescaled them or returned them unchanged, the
\* array given to normalize is float32, so the uint8 branch of normalize is
\* not taken and each output value equals (pixel / 255 - mean) / std.
C28_DividedOnce ==
    /\ n_pc = "normalize" => (n_array.dtype = "float32" /\ n_divs = 1)
    /\ n_pc = "done" =>
          /\ n_divs = 1
          /\ n_array.dtype = "float32"
          /\ Rat(n_array.num, n_array.den)
                = RatDiv(RatSub(Rat(n_pixel, PixelScale), MEAN), STD)

\* a uint8 frame that scale_short_side returned as it was, still uint8 when
\* it is stacked, came out of normalize divided by 255 once
C28_Witness ==
    /\ n_pc = "done"
    /\ n_frame.dtype = "uint8"
    /\ ~n_rescaled
    /\ n_pixel = PixelScale
    /\ n_divs = 1
    /\ n_array.num = 22 /\ n_array.den = 9

(***************************************************************************)
(* Properties of the conversion cells.                                     *)
(***************************************************************************)
GuardedKinds == {"guarded_all", "guarded_ir", "export_guarded_ir"}

\* this step runs the cell at c_pc
IsExec == notebook \in Notebooks /\ run' = run /\ lost' = lost /\ ~c_err

CurrentCell == Cells(notebook)[c_pc]

WeightsMissing(c) == c.xml \in disk /\ c.bin \notin disk

\* C22: when the .xml of a converted artifact exists and its .bin is missing,
\* a guarded conversion cell does not regenerate the artifact: the existence
\* check passes on the .xml alone, read_model is called and fails, the cell
\* stops the run, and neither the .xml nor the .bin is written or repaired;
\* the EnCodec cells and the FreeVC IR cells write no file at all.
C22_MissingWeightsNotRepaired ==
    [][(IsExec /\ CurrentCell.kind \in GuardedKinds /\ WeightsMissing(CurrentCell)) =>
         LET c == CurrentCell
         IN  /\ c_err'
             /\ c_pc' = c_pc
             /\ bound' = bound
             /\ writes'[c.xml] = writes[c.xml]
             /\ writes'[c.bin] = writes[c.bin]
             /\ WeightsMissing(c)'
             /\ c.kind \in {"guarded_all", "guarded_ir"} =>
                   (writes' = writes /\ disk' = disk)]_vars

\* the second run of EnCodec failed in the encoder cell: encodec_encoder.bin
\* was lost after the first run, the .xml is there and nothing was rewritten
C22_Witness ==
    /\ notebook = "encodec"
    /\ run = 2
    /\ c_pc = 1
    /\ c_err
    /\ WeightsMissing(Cells("encodec")[1])
    /\ writes["encodec_encoder.xml"] = 1
    /\ writes["encodec_encoder.bin"] = 1
    /\ writes["encodec_encoder.onnx"] = 1

(***************************************************************************)
(* Properties of the conversion cell under concurrent runs.                *)
(***************************************************************************)
\* C9: the read-if-exists / else-write-once policy is not protected against
\* concurrent writers: a process that saw the artifact absent executes
\* save_model whatever the other process has written meanwhile, so both
\* processes can see it absent and both save to the same path.
C9_AbsentAlwaysSaves ==
    \A p \in DOMAIN r_pc :
        (r_pc[p] = "done" /\ r_seen[p] = "absent") =>
            /\ r_saved[p] = 1
            /\ r_model[p] = "converted"
            /\ writes[r_cell.xml] >= 1

\* both processes saw the artifact absent and both executed save_model
C9_Witness ==
    /\ r_cell \in RaceCells
    /\ \A p \in Procs : r_seen[p] = "absent" /\ r_saved[p] = 1
    /\ writes[r_cell.xml] = 2
    /\ writes[r_cell.bin] = 2

====
